---- MODULE Spec2Model ----
(***************************************************************************)
(* Asset export and verified download subsystem of brandfetch-cli.         *)
(*                                                                         *)
(* internal/output/output.go : variable allocator and config emitters      *)
(* internal/cmd/checksum.go  : checksum manifest engine                    *)
(* internal/cmd/quick.go     : quick command, fetch and download batch     *)
(*                                                                         *)
(* Text the emitters produce is a TLA+ string built with \o exactly as the *)
(* Sprintf calls build it.  Text the code takes apart again (manifest      *)
(* files, domains) is a sequence of one-character strings, so that         *)
(* splitting, trimming and prefix stripping are computed, not assumed.     *)
(***************************************************************************)
EXTENDS Integers, Sequences, FiniteSets, TLC

VARIABLES
    colors,      \* QuickResult.Colors given to the flat emitter
    colorVars,   \* []cssVar returned by buildColorVariables
    colorEntries, \* []string returned by buildTailwindColors
    fonts,       \* QuickResult.Fonts given to the emitters
    fontVars,    \* []cssVar returned by buildFontVariables
    fontEntries, \* []string returned by buildTailwindFonts
    results,     \* []*QuickResult given to the batch emitters
    cssOut,      \* text returned by FormatQuickCSSBatch
    tailwindOut, \* text returned by FormatQuickTailwindBatch
    manifestFile, \* content of the file at the manifest path, or NoFile
    lastWrite,   \* arguments and result of the last call on the manifest path
    merged,      \* entries of the writes so far, later writes overriding earlier
    writers,     \* invocations appending to the manifest path at the same time
    verifyCall,  \* arguments of the last call of verifySHA256ManifestEntry
    verifyErr,   \* the error it returned, "" for nil
    flags,       \* the flag globals of the quick command
    args,        \* the identifiers on the command line
    pc,          \* position of runQuickCmd: statement, brand index, slot index
    events,      \* what the run did so far to the API, the streams and the network
    disk,        \* directories and files below the download root, manifest files
    manifest,    \* the map returned by parseSHA256Manifest, or nil
    manifestEntries, \* []checksumEntry collected for the manifest to write
    ret          \* what runQuickCmd returned, "running" before it returns

vars == <<colors, colorVars, colorEntries, fonts, fontVars, fontEntries,
          results, cssOut, tailwindOut,
          manifestFile, lastWrite, merged, writers,
          verifyCall, verifyErr,
          flags, args, pc, events, disk, manifest, manifestEntries, ret>>

colorState == <<colors, colorVars, colorEntries>>
fontState == <<fonts, fontVars, fontEntries>>
batchState == <<results, cssOut, tailwindOut>>

\* the parts of the state a specification does not use stay at these values
colorIdle == colors = <<>> /\ colorVars = <<>> /\ colorEntries = <<>>
fontIdle == fonts = <<>> /\ fontVars = <<>> /\ fontEntries = <<>>
batchIdle == results = <<>> /\ cssOut = "" /\ tailwindOut = ""
manifestState == <<manifestFile, lastWrite, merged, writers>>

\* no file at the manifest path
NoFile == [exists |-> FALSE, data |-> <<>>]
\* no call made yet
NoCall == [kind |-> "none", entries |-> <<>>, append |-> FALSE, err |-> FALSE]
\* a Go map[string]string with no key
EmptyMap == [k \in {} |-> <<>>]
\* the file was last written by something else than writeSHA256Manifest
Untracked == [tracked |-> FALSE, map |-> EmptyMap]

manifestIdle ==
    manifestFile = NoFile /\ lastWrite = NoCall /\ merged = Untracked /\ writers = <<>>

verifyState == <<verifyCall, verifyErr>>
\* verifySHA256ManifestEntry not called
NoVerify == [called |-> FALSE, path |-> <<>>, root |-> <<>>,
             manifest |-> [nil |-> TRUE, map |-> EmptyMap], file |-> NoFile]
verifyIdle == verifyCall = NoVerify /\ verifyErr = ""

quickState == <<flags, args, pc, events, disk, manifest, manifestEntries, ret>>
\* values of --output: the two formats as the help text spells them, json in
\* capitals, and a format the CLI does not have
FormatTextName == <<"t", "e", "x", "t">>
FormatJSONName == <<"j", "s", "o", "n">>
OutputFormats == { FormatTextName, FormatJSONName, <<"J", "S", "O", "N">>, <<"x", "m", "l">> }

\* the quick command not invoked
NoFlags == [cssOutput |-> FALSE, tailwindOutput |-> FALSE, outputFormat |-> FormatTextName,
            downloadDir |-> <<>>, quickSHA256 |-> FALSE,
            quickSHA256Manifest |-> <<>>, quickSHA256ManifestOut |-> <<>>,
            quickSHA256ManifestAppend |-> FALSE, quickSHA256ManifestVerify |-> FALSE]
NoDisk == [dirs |-> {}, assets |-> EmptyMap, sidecars |-> EmptyMap,
           manifestIn |-> NoFile, manifestOut |-> NoFile]
NilManifest == [nil |-> TRUE, map |-> EmptyMap]
quickIdle ==
    /\ flags = NoFlags /\ args = <<>> /\ pc = [at |-> "idle", i |-> 0, j |-> 0]
    /\ events = <<>> /\ disk = NoDisk /\ manifest = NilManifest
    /\ manifestEntries = <<>> /\ ret = "idle"

(***************************************************************************)
(* Bounds and input alphabets                                              *)
(***************************************************************************)
MaxColors == 4
MaxFonts == 4

\* semantic types are passed through verbatim; "accent-1" is a type whose
\* text ends in -<number>
ColorTypes == {"accent", "accent-1", "light"}
ColorHexes == {"#FF0000", "#00FF00"}
ColorInfos == [Type : ColorTypes, Hex : ColorHexes]

FontTypes == {"body", "title"}
FontNames == {"Inter", "Roboto"}
FontInfos == [Name : FontNames, Type : FontTypes]

\* brands of the batch specification: identities, color lists and font lists
MaxBrands == 2

Brands ==
    { [Name |-> "Stripe", Domain |-> <<"s", "t", "r", "i", "p", "e", ".", "c", "o", "m">>],
      [Name |-> "GitHub", Domain |-> <<"g", "i", "t", "h", "u", "b", ".", "c", "o", "m">>],
      [Name |-> "My App", Domain |-> <<"m", "y", "-", "a", "p", "p", ".", "d", "e", "v", ".", "i", "o">>] }

BrandColorLists ==
    { <<>>,
      <<[Type |-> "accent", Hex |-> "#635BFF"]>>,
      <<[Type |-> "dark", Hex |-> "#24292f"]>>,
      <<[Type |-> "accent", Hex |-> "#635BFF"], [Type |-> "dark", Hex |-> "#24292f"],
        [Type |-> "accent", Hex |-> "#FF0000"]>> }

BrandFontLists ==
    { <<>>,
      <<[Name |-> "Inter", Type |-> "body"]>>,
      <<[Name |-> "Inter", Type |-> "body"], [Name |-> "Roboto", Type |-> "body"]>>,
      <<[Name |-> "Inter", Type |-> "title"], [Name |-> "Inter", Type |-> "title"]>> }

QuickResults ==
    { [Name |-> b.Name, Domain |-> b.Domain, Colors |-> cs, Fonts |-> fs] :
        b \in Brands, cs \in BrandColorLists, fs \in BrandFontLists }

\* entries handed to writeSHA256Manifest
MaxEntries == 2

\* relative paths: a file at the root, and a file below a directory whose name
\* has a space in it
ManifestPaths == { <<"a">>, <<"b", " ", "b", "/", "a">> }
ManifestSums == { <<"1">>, <<"2">> }
ChecksumEntries == [Path : ManifestPaths, Sum : ManifestSums]

\* manifests put at the path by other tools
SeedFiles ==
    { \* unsorted
      <<"9", " ", " ", "b", "\n", "1", " ", " ", "a", "\n">>,
      \* comment, blank line, binary marker, ./ prefix
      <<"#", " ", "a", "\n", "\n", "2", " ", "*", "a", "\n", "9", " ", " ", ".", "/", "b", "\n">>,
      \* the same key twice, a line with one token
      <<"1", " ", " ", "a", "\n", "2", " ", " ", "a", "\n", "9", "\n">> }

\* names the quick command gives to what it downloads, and the directories
\* of the model
LogoLightSVG == <<"l", "o", "g", "o", "-", "l", "i", "g", "h", "t", ".", "s", "v", "g">>
LogoDarkSVG == <<"l", "o", "g", "o", "-", "d", "a", "r", "k", ".", "s", "v", "g">>
FaviconName == <<"f", "a", "v", "i", "c", "o", "n">>
OutDir == <<"o", "u", "t">>
StripeDir == <<"s", "t", "r", "i", "p", "e">>

\* inputs of verifySHA256ManifestEntry: a file at the root, one below a
\* brand directory and one in the working directory; no root, a directory,
\* the same directory written with "./" and a trailing separator, the
\* working directory, the one above it and the file system root; manifests
\* keyed by base name and by relative paths, digests in lower and upper case
UncleanOutDir == <<".", "/", "o", "u", "t", "/">>
VerifyRoots == { <<>>, OutDir, UncleanOutDir, <<".">>, <<".", ".">>, <<"/">> }
VerifyPaths == { OutDir \o <<"/">> \o LogoLightSVG,
                 OutDir \o <<"/">> \o StripeDir \o <<"/">> \o LogoLightSVG,
                 LogoLightSVG }
VerifyKeys == { LogoLightSVG, StripeDir \o <<"/">> \o LogoLightSVG,
                OutDir \o <<"/">> \o LogoLightSVG,
                <<".", ".", "/">> \o LogoLightSVG }
VerifySums == { <<"a", "b">>, <<"A", "B">>, <<"c", "d">> }
VerifyManifests ==
    { [nil |-> TRUE, map |-> [k \in {} |-> <<>>]] } \cup
    { [nil |-> FALSE, map |-> m] : m \in UNION { [K -> VerifySums] : K \in SUBSET VerifyKeys } }
VerifyFiles == { [exists |-> FALSE, data |-> <<>>],
                 [exists |-> TRUE, data |-> <<"A">>],
                 [exists |-> TRUE, data |-> <<"B">>] }

\* files a run records and a later run verifies: at the download root, in
\* the directory of a brand, in a directory whose name has a space, in the
\* working directory, without extension; the roots the two runs have: none,
\* the download root, the directory of the brand, another directory, the
\* working directory, the download root written with "./" and a trailing
\* separator
RecordPaths ==
    { OutDir \o <<"/">> \o LogoLightSVG,
      OutDir \o <<"/">> \o StripeDir \o <<"/">> \o LogoLightSVG,
      OutDir \o <<"/", "m", "y", " ", "b", "r", "a", "n", "d", "/">> \o LogoLightSVG,
      LogoLightSVG,
      OutDir \o <<"/">> \o StripeDir \o <<"/">> \o FaviconName }
RecordRoots == { <<>>, OutDir, OutDir \o <<"/">> \o StripeDir, <<"x">>, <<".">>, UncleanOutDir }
RecordContents == { <<"A">>, <<"B">> }

\* identifiers of the quick command and what the Brand API returns for them
\* after convertBrandToQuickResult: a brand with the three assets, a brand of
\* another top-level domain with one logo, a brand looked up by brand id
\* whose response carries no domain and an icon without extension
MaxArgs == 2

StripeCom == <<"s", "t", "r", "i", "p", "e", ".", "c", "o", "m">>
StripeIO == <<"s", "t", "r", "i", "p", "e", ".", "i", "o">>
AcmeID == <<"i", "d", "_", "a", "c", "m", "e">>
Identifiers == { StripeCom, StripeIO, AcmeID }

StripeLightURL == <<"h", "t", "t", "p", "s", ":", "/", "/", "c", "d", "n", ".", "i", "o", "/", "s", "/", "l", "i", "g", "h", "t", ".", "s", "v", "g">>
StripeDarkURL == <<"h", "t", "t", "p", "s", ":", "/", "/", "c", "d", "n", ".", "i", "o", "/", "s", "/", "d", "a", "r", "k", ".", "s", "v", "g">>
StripeIconURL == <<"h", "t", "t", "p", "s", ":", "/", "/", "c", "d", "n", ".", "i", "o", "/", "s", "/", "i", "c", "o", "n", ".", "P", "N", "G", "?", "v", "=", "2">>
StripeIOLightURL == <<"h", "t", "t", "p", "s", ":", "/", "/", "c", "d", "n", ".", "i", "o", "/", "t", "/", "l", "i", "g", "h", "t", ".", "s", "v", "g">>
AcmeIconURL == <<"h", "t", "t", "p", "s", ":", "/", "/", "c", "d", "n", ".", "i", "o", "/", "i", "c", "o", "n">>

BrandAPI ==
    [id \in Identifiers |->
        CASE id = StripeCom ->
               [Name |-> "Stripe", Domain |-> StripeCom, LogoLight |-> StripeLightURL,
                LogoDark |-> StripeDarkURL, Favicon |-> StripeIconURL,
                Colors |-> <<[Type |-> "accent", Hex |-> "#635BFF", Brightness |-> 0]>>,
                Fonts |-> <<[Name |-> "Inter", Type |-> "body"]>>]
          [] id = StripeIO ->
               [Name |-> "Stripe IO", Domain |-> StripeIO, LogoLight |-> StripeIOLightURL,
                LogoDark |-> <<>>, Favicon |-> <<>>,
                Colors |-> <<[Type |-> "accent", Hex |-> "#635BFF", Brightness |-> 96],
                             [Type |-> "accent", Hex |-> "#FF0000", Brightness |-> 54]>>,
                Fonts |-> <<>>]
          [] OTHER ->
               [Name |-> "Acme", Domain |-> <<>>, LogoLight |-> <<>>,
                LogoDark |-> <<>>, Favicon |-> AcmeIconURL,
                Colors |-> <<[Type |-> "dark", Hex |-> "#24292f", Brightness |-> 38]>>,
                Fonts |-> <<[Name |-> "Inter", Type |-> "title"]>>]]

\* what a call of downloadFile ends in: "200" when the response had status
\* 200 and its body was written to the file, or the failure of the request
\* to the URL, a response with status 404 for the files of the first
\* brand's light logo and icons, a transport error for the others, or the
\* failure on disk after a response with status 200, os.Create failing for
\* the icon of id_acme ("create") and io.Copy failing for the logo of
\* stripe.io ("copy"); the content served for a URL; what the write of the
\* sidecar of a saved file ends in, for the icon of id_acme also the failure
\* of computeSHA256 on the file or of os.WriteFile; and what os.Open of a
\* saved file ends in when verifySHA256ManifestEntry and when
\* buildChecksumEntry compute its digest, which may fail for the logo of
\* stripe.io
FetchFailure(url) ==
    IF url \in {StripeDarkURL, StripeIOLightURL} THEN "transport" ELSE "404"
DiskFailures(url) ==
    IF url = AcmeIconURL THEN {"create"}
    ELSE IF url = StripeIOLightURL THEN {"copy"}
    ELSE {}
FetchOutcomes(url) == {"200", FetchFailure(url)} \cup DiskFailures(url)
Served(url) == IF url = StripeLightURL THEN <<"A">> ELSE <<"B">>
SidecarOutcomes(url) ==
    IF url = AcmeIconURL
    THEN {"ok", "permission denied", "failed to open file for checksum"}
    ELSE {"ok"}
OpenOutcomes(url) == IF url = StripeIOLightURL THEN {TRUE, FALSE} ELSE {TRUE}

\* the error downloadFile returns for an outcome other than "200"
downloadError(outcome) ==
    CASE outcome = "transport" -> "network error"
      [] outcome = "create" -> "permission denied"
      [] outcome = "copy" -> "unexpected EOF"
      [] OTHER -> "HTTP " \o outcome

\* the paths given to --sha256-manifest and --sha256-manifest-out
ManifestInPath == <<"i", "n", ".", "s", "h", "a", "2", "5", "6">>
ManifestOutPath == <<"o", "u", "t", ".", "s", "h", "a", "2", "5", "6">>

\* the manifest to verify against is missing, or lists the light logo under
\* its base name with its digest in upper case and the dark logo under the
\* path it has in a batch of several brands
ManifestInFiles ==
    { [exists |-> FALSE, data |-> <<>>],
      [exists |-> TRUE,
       data |-> <<"A", "B", " ", " ", "l", "o", "g", "o", "-", "l", "i", "g", "h", "t", ".", "s", "v", "g", "\n", "c", "d", " ", " ", "s", "t", "r", "i", "p", "e", "/", "l", "o", "g", "o", "-", "d", "a", "r", "k", ".", "s", "v", "g", "\n">>] }

\* the manifest to write is missing, or was written by an earlier run
ManifestOutFiles ==
    { [exists |-> FALSE, data |-> <<>>],
      [exists |-> TRUE, data |-> <<"9", "9", " ", " ", "o", "l", "d", ".", "s", "v", "g", "\n">>] }

\* two invocations that append to one manifest path, and the entry each of
\* them has collected
Writers == {1, 2}
RaceEntries == [Path : { <<"a">>, <<"b">> }, Sum : ManifestSums]

\* every list of distinct elements of S of length 1 to n
DistinctSeqs(S, n) ==
    UNION { {s \in [1..k -> S] : \A i, j \in 1..k : i # j => s[i] # s[j]} : k \in 1..n }

\* lines of a manifest file: two digests for one path, the binary marker,
\* the ./ prefix, comments, a blank line, a line with one token, path tokens
\* that are nothing but a marker or a prefix, a marker and a prefix twice,
\* tabs, a third token, a carriage return, spaces around
MaxLines == 2

ManifestLines ==
    { <<"a", "b", " ", " ", "a">>,
      <<"c", "d", " ", " ", "a">>,
      <<"A", "B", " ", "*", "a">>,
      <<"c", "d", " ", " ", ".", "/", "b">>,
      <<"#", " ", "a", "b", " ", "a">>,
      <<" ", " ", "#", "a", "b", " ", "a">>,
      <<>>,
      <<"a", "b">>,
      <<"a", "b", " ", " ", "*">>,
      <<"a", "b", " ", "*", ".", "/">>,
      <<"a", "b", " ", "*", "*", "a">>,
      <<"a", "b", "\t", "b", " ", "c", "\r">>,
      <<" ", "c", "d", " ", " ", ".", "/", ".", "/", "b", " ">> }

\* strings.Join(lines, "\n")
RECURSIVE joinLines(_)
joinLines(lines) ==
    IF lines = <<>> THEN <<>>
    ELSE IF Len(lines) = 1 THEN lines[1]
    ELSE lines[1] \o <<"\n">> \o joinLines(Tail(lines))

\* every list over S of length at most n
SeqsUpTo(S, n) == UNION {[1..k -> S] : k \in 0..n}

Range(s) == {s[i] : i \in DOMAIN s}

(***************************************************************************)
(* Variable allocator, colors                                              *)
(***************************************************************************)
\* typeCounts[c.Type]++ over the whole list (a Go map: absent key reads 0)
colorTypeCounts(cs) ==
    [t \in {cs[i].Type : i \in DOMAIN cs} |->
        Cardinality({i \in DOMAIN cs : cs[i].Type = t})]

\* read of a Go map[string]int
mapGet(m, k) == IF k \in DOMAIN m THEN m[k] ELSE 0

\* m[k]++ on a Go map[string]int
mapInc(m, k) == [x \in DOMAIN m \cup {k} |-> IF x = k THEN mapGet(m, k) + 1 ELSE m[x]]

RECURSIVE colorVarsLoop(_, _, _, _, _)
colorVarsLoop(cs, typeCounts, i, typeIndex, acc) ==
    IF i > Len(cs) THEN acc
    ELSE LET c == cs[i]
             dup == mapGet(typeCounts, c.Type) > 1
             typeIndex2 == IF dup THEN mapInc(typeIndex, c.Type) ELSE typeIndex
             varName == IF dup
                        THEN "--color-" \o c.Type \o "-" \o ToString(typeIndex2[c.Type])
                        ELSE "--color-" \o c.Type
         IN colorVarsLoop(cs, typeCounts, i + 1, typeIndex2,
                          Append(acc, [name |-> varName, value |-> c.Hex]))

\* a slip in the allocator: every color is numbered, also the only one of its type
RECURSIVE colorVarsLoopAlwaysNumbered(_, _, _, _, _)
colorVarsLoopAlwaysNumbered(cs, typeCounts, i, typeIndex, acc) ==
    IF i > Len(cs) THEN acc
    ELSE LET c == cs[i]
             typeIndex2 == mapInc(typeIndex, c.Type)
             varName == "--color-" \o c.Type \o "-" \o ToString(typeIndex2[c.Type])
         IN colorVarsLoopAlwaysNumbered(cs, typeCounts, i + 1, typeIndex2,
                          Append(acc, [name |-> varName, value |-> c.Hex]))

buildColorVariablesAlwaysNumbered(cs) ==
    colorVarsLoopAlwaysNumbered(cs, colorTypeCounts(cs), 1, <<>>, <<>>)

buildColorVariables(cs) ==
    colorVarsLoop(cs, colorTypeCounts(cs), 1, <<>>, <<>>)

(***************************************************************************)
(* Variable allocator, fonts                                               *)
(***************************************************************************)
\* typeCounts[f.Type]++ over the whole list, before any de-duplication
fontTypeCounts(fs) ==
    [t \in {fs[i].Type : i \in DOMAIN fs} |->
        Cardinality({i \in DOMAIN fs : fs[i].Type = t})]

\* key := f.Name + "|" + f.Type
fontKey(f) == f.Name \o "|" \o f.Type

RECURSIVE fontVarsLoop(_, _, _, _, _, _)
fontVarsLoop(fs, typeCounts, i, typeIndex, seen, acc) ==
    IF i > Len(fs) THEN acc
    ELSE LET f == fs[i]
         IN IF fontKey(f) \in seen
            THEN fontVarsLoop(fs, typeCounts, i + 1, typeIndex, seen, acc)
            ELSE LET dup == mapGet(typeCounts, f.Type) > 1
                     typeIndex2 == IF dup THEN mapInc(typeIndex, f.Type) ELSE typeIndex
                     varName == IF dup
                                THEN "--font-" \o f.Type \o "-" \o ToString(typeIndex2[f.Type])
                                ELSE "--font-" \o f.Type
                     value == "'" \o f.Name \o "', sans-serif"
                 IN fontVarsLoop(fs, typeCounts, i + 1, typeIndex2,
                                 seen \cup {fontKey(f)},
                                 Append(acc, [name |-> varName, value |-> value]))

buildFontVariables(fs) ==
    fontVarsLoop(fs, fontTypeCounts(fs), 1, <<>>, {}, <<>>)

RECURSIVE tailwindFontsLoop(_, _, _, _, _, _)
tailwindFontsLoop(fs, typeCounts, i, typeIndex, seen, acc) ==
    IF i > Len(fs) THEN acc
    ELSE LET f == fs[i]
         IN IF fontKey(f) \in seen
            THEN tailwindFontsLoop(fs, typeCounts, i + 1, typeIndex, seen, acc)
            ELSE LET dup == mapGet(typeCounts, f.Type) > 1
                     typeIndex2 == IF dup THEN mapInc(typeIndex, f.Type) ELSE typeIndex
                     entry == IF dup
                              THEN "    " \o f.Type \o ToString(typeIndex2[f.Type])
                                     \o ": ['\"" \o f.Name \o "\"', 'sans-serif'],\n"
                              ELSE "    " \o f.Type
                                     \o ": ['\"" \o f.Name \o "\"', 'sans-serif'],\n"
                 IN tailwindFontsLoop(fs, typeCounts, i + 1, typeIndex2,
                                      seen \cup {fontKey(f)}, Append(acc, entry))

buildTailwindFonts(fs) ==
    tailwindFontsLoop(fs, fontTypeCounts(fs), 1, <<>>, {}, <<>>)

(***************************************************************************)
(* Strings as sequences of one-character strings (package strings)         *)
(***************************************************************************)
HasPrefix(s, prefix) ==
    Len(s) >= Len(prefix) /\ SubSeq(s, 1, Len(prefix)) = prefix

HasSuffix(s, suffix) ==
    Len(s) >= Len(suffix) /\ SubSeq(s, Len(s) - Len(suffix) + 1, Len(s)) = suffix

TrimPrefix(s, prefix) ==
    IF HasPrefix(s, prefix) THEN SubSeq(s, Len(prefix) + 1, Len(s)) ELSE s

TrimSuffix(s, suffix) ==
    IF HasSuffix(s, suffix) THEN SubSeq(s, 1, Len(s) - Len(suffix)) ELSE s

\* strings.ReplaceAll for a one-character old and new
ReplaceAll(s, old, new) == [i \in DOMAIN s |-> IF s[i] = old THEN new ELSE s[i]]

\* the text a character sequence stands for, as it is passed to Sprintf
RECURSIVE Text(_)
Text(s) == IF s = <<>> THEN "" ELSE s[1] \o Text(Tail(s))

(***************************************************************************)
(* Flat emitter, single entity                                             *)
(***************************************************************************)
\* for _, v := range vars { sb.WriteString(Sprintf("  %s: %s;\n", ...)) }
RECURSIVE cssLines(_)
cssLines(vs) ==
    IF vs = <<>> THEN ""
    ELSE "  " \o vs[1].name \o ": " \o vs[1].value \o ";\n" \o cssLines(Tail(vs))

FormatQuickCSS(result) ==
    ":root {\n"
    \o (IF Len(result.Colors) > 0
        THEN "  /* Colors */\n" \o cssLines(buildColorVariables(result.Colors))
        ELSE "")
    \o (IF Len(result.Fonts) > 0
        THEN (IF Len(result.Colors) > 0 THEN "\n" ELSE "")
             \o "  /* Fonts */\n" \o cssLines(buildFontVariables(result.Fonts))
        ELSE "")
    \o "}"

(***************************************************************************)
(* Nested emitter, single entity                                           *)
(***************************************************************************)
\* for _, entry := range entries { sb.WriteString(entry) }
RECURSIVE writeEntries(_)
writeEntries(es) == IF es = <<>> THEN "" ELSE es[1] \o writeEntries(Tail(es))

\* typeOrder: the types in order of first occurrence
RECURSIVE colorTypeOrder(_)
colorTypeOrder(cs) ==
    IF cs = <<>> THEN <<>>
    ELSE LET front == colorTypeOrder(SubSeq(cs, 1, Len(cs) - 1))
             t == cs[Len(cs)].Type
         IN IF t \in Range(front) THEN front ELSE Append(front, t)

\* typeColors[t]: the hex values of type t in arrival order
RECURSIVE colorHexValues(_, _)
colorHexValues(cs, t) ==
    IF cs = <<>> THEN <<>>
    ELSE IF cs[1].Type = t
         THEN <<cs[1].Hex>> \o colorHexValues(Tail(cs), t)
         ELSE colorHexValues(Tail(cs), t)

\* for i, hex := range hexValues { Sprintf(indent + "%d: '%s',\n", i+1, hex) }
RECURSIVE nestedHexLines(_, _, _)
nestedHexLines(hexValues, i, indent) ==
    IF i > Len(hexValues) THEN ""
    ELSE indent \o ToString(i) \o ": '" \o hexValues[i] \o "',\n"
         \o nestedHexLines(hexValues, i + 1, indent)

\* a slip in the nested emitter: a type with one value gets a sub-object too
tailwindColorEntryAlwaysNested(colorType, hexValues, indent) ==
    indent \o colorType \o ": {\n"
    \o nestedHexLines(hexValues, 1, indent \o "  ")
    \o indent \o "},\n"

tailwindColorEntry(colorType, hexValues, indent) ==
    IF Len(hexValues) = 1
    THEN indent \o colorType \o ": '" \o hexValues[1] \o "',\n"
    ELSE indent \o colorType \o ": {\n"
         \o nestedHexLines(hexValues, 1, indent \o "  ")
         \o indent \o "},\n"

buildTailwindColors(cs) ==
    LET typeOrder == colorTypeOrder(cs)
    IN [k \in DOMAIN typeOrder |->
          tailwindColorEntry(typeOrder[k], colorHexValues(cs, typeOrder[k]), "    ")]

FormatQuickTailwind(result) ==
    "// Tailwind CSS config for " \o result.Name \o "\n"
    \o "// Add to your tailwind.config.js theme.extend\n"
    \o "module.exports = {\n"
    \o (IF Len(result.Colors) > 0
        THEN "  colors: {\n" \o writeEntries(buildTailwindColors(result.Colors)) \o "  },\n"
        ELSE "")
    \o (IF Len(result.Fonts) > 0
        THEN "  fontFamily: {\n" \o writeEntries(buildTailwindFonts(result.Fonts)) \o "  },\n"
        ELSE "")
    \o "}"

(***************************************************************************)
(* Batch emitters                                                          *)
(***************************************************************************)
\* strip .com, .io, .org, .net, .co in this order, one after the other
trimTLDs(domain) ==
    LET n1 == TrimSuffix(domain, <<".", "c", "o", "m">>)
        n2 == TrimSuffix(n1, <<".", "i", "o">>)
        n3 == TrimSuffix(n2, <<".", "o", "r", "g">>)
        n4 == TrimSuffix(n3, <<".", "n", "e", "t">>)
    IN TrimSuffix(n4, <<".", "c", "o">>)

sanitizeCSSName(domain) == ReplaceAll(trimTLDs(domain), ".", "-")

sanitizeTailwindKey(domain) ==
    ReplaceAll(ReplaceAll(trimTLDs(domain), ".", "_"), "-", "_")

RECURSIVE colorVarsWithPrefixLoop(_, _, _, _, _, _)
colorVarsWithPrefixLoop(cs, prefix, typeCounts, i, typeIndex, acc) ==
    IF i > Len(cs) THEN acc
    ELSE LET c == cs[i]
             dup == mapGet(typeCounts, c.Type) > 1
             typeIndex2 == IF dup THEN mapInc(typeIndex, c.Type) ELSE typeIndex
             varName == IF dup
                        THEN "--" \o prefix \o "-color-" \o c.Type
                               \o "-" \o ToString(typeIndex2[c.Type])
                        ELSE "--" \o prefix \o "-color-" \o c.Type
         IN colorVarsWithPrefixLoop(cs, prefix, typeCounts, i + 1, typeIndex2,
                                    Append(acc, [name |-> varName, value |-> c.Hex]))

\* a slip in the batch allocator: the suffix of a repeated type is the color's
\* position in the list instead of the running index of its type
buildColorVariablesWithPrefixPositional(cs, prefix) ==
    [i \in DOMAIN cs |->
        [name |-> IF mapGet(colorTypeCounts(cs), cs[i].Type) > 1
                  THEN "--" \o prefix \o "-color-" \o cs[i].Type \o "-" \o ToString(i)
                  ELSE "--" \o prefix \o "-color-" \o cs[i].Type,
         value |-> cs[i].Hex]]

buildColorVariablesWithPrefix(cs, prefix) ==
    colorVarsWithPrefixLoop(cs, prefix, colorTypeCounts(cs), 1, <<>>, <<>>)

RECURSIVE fontVarsWithPrefixLoop(_, _, _, _, _, _, _)
fontVarsWithPrefixLoop(fs, prefix, typeCounts, i, typeIndex, seen, acc) ==
    IF i > Len(fs) THEN acc
    ELSE LET f == fs[i]
         IN IF fontKey(f) \in seen
            THEN fontVarsWithPrefixLoop(fs, prefix, typeCounts, i + 1, typeIndex, seen, acc)
            ELSE LET dup == mapGet(typeCounts, f.Type) > 1
                     typeIndex2 == IF dup THEN mapInc(typeIndex, f.Type) ELSE typeIndex
                     varName == IF dup
                                THEN "--" \o prefix \o "-font-" \o f.Type
                                       \o "-" \o ToString(typeIndex2[f.Type])
                                ELSE "--" \o prefix \o "-font-" \o f.Type
                     value == "'" \o f.Name \o "', sans-serif"
                 IN fontVarsWithPrefixLoop(fs, prefix, typeCounts, i + 1, typeIndex2,
                                           seen \cup {fontKey(f)},
                                           Append(acc, [name |-> varName, value |-> value]))

buildFontVariablesWithPrefix(fs, prefix) ==
    fontVarsWithPrefixLoop(fs, prefix, fontTypeCounts(fs), 1, <<>>, {}, <<>>)

\* the loop body of FormatQuickCSSBatch for results[i]
cssBatchBrand(rs, i) ==
    LET result == rs[i]
        brandPrefix == Text(sanitizeCSSName(result.Domain))
    IN (IF i > 1 THEN "\n" ELSE "")
       \o "  /* " \o result.Name \o " */\n"
       \o (IF Len(result.Colors) > 0
           THEN cssLines(buildColorVariablesWithPrefix(result.Colors, brandPrefix))
           ELSE "")
       \o (IF Len(result.Fonts) > 0
           THEN cssLines(buildFontVariablesWithPrefix(result.Fonts, brandPrefix))
           ELSE "")

RECURSIVE cssBatchBrands(_, _)
cssBatchBrands(rs, i) ==
    IF i > Len(rs) THEN "" ELSE cssBatchBrand(rs, i) \o cssBatchBrands(rs, i + 1)

\* a slip in the batch emitter: the single-result case is not special-cased
FormatQuickCSSBatchNoSingleCase(rs) ==
    IF Len(rs) = 0 THEN ":root {\n}"
    ELSE ":root {\n" \o cssBatchBrands(rs, 1) \o "}"

FormatQuickCSSBatch(rs) ==
    IF Len(rs) = 0 THEN ":root {\n}"
    ELSE IF Len(rs) = 1 THEN FormatQuickCSS(rs[1])
    ELSE ":root {\n" \o cssBatchBrands(rs, 1) \o "}"

buildTailwindColorsNested(cs) ==
    LET typeOrder == colorTypeOrder(cs)
    IN [k \in DOMAIN typeOrder |->
          tailwindColorEntry(typeOrder[k], colorHexValues(cs, typeOrder[k]), "      ")]

RECURSIVE tailwindFontsNestedLoop(_, _, _, _, _, _)
tailwindFontsNestedLoop(fs, typeCounts, i, typeIndex, seen, acc) ==
    IF i > Len(fs) THEN acc
    ELSE LET f == fs[i]
         IN IF fontKey(f) \in seen
            THEN tailwindFontsNestedLoop(fs, typeCounts, i + 1, typeIndex, seen, acc)
            ELSE LET dup == mapGet(typeCounts, f.Type) > 1
                     typeIndex2 == IF dup THEN mapInc(typeIndex, f.Type) ELSE typeIndex
                     entry == IF dup
                              THEN "      " \o f.Type \o ToString(typeIndex2[f.Type])
                                     \o ": ['\"" \o f.Name \o "\"', 'sans-serif'],\n"
                              ELSE "      " \o f.Type
                                     \o ": ['\"" \o f.Name \o "\"', 'sans-serif'],\n"
                 IN tailwindFontsNestedLoop(fs, typeCounts, i + 1, typeIndex2,
                                            seen \cup {fontKey(f)}, Append(acc, entry))

buildTailwindFontsNested(fs) ==
    tailwindFontsNestedLoop(fs, fontTypeCounts(fs), 1, <<>>, {}, <<>>)

\* the colors section loop of FormatQuickTailwindBatch
RECURSIVE tailwindBatchColors(_, _)
tailwindBatchColors(rs, i) ==
    IF i > Len(rs) THEN ""
    ELSE (IF Len(rs[i].Colors) = 0 THEN ""
          ELSE "    " \o Text(sanitizeTailwindKey(rs[i].Domain)) \o ": {\n"
               \o writeEntries(buildTailwindColorsNested(rs[i].Colors))
               \o "    },\n")
         \o tailwindBatchColors(rs, i + 1)

\* the fontFamily section loop of FormatQuickTailwindBatch
RECURSIVE tailwindBatchFonts(_, _)
tailwindBatchFonts(rs, i) ==
    IF i > Len(rs) THEN ""
    ELSE (IF Len(rs[i].Fonts) = 0 THEN ""
          ELSE "    " \o Text(sanitizeTailwindKey(rs[i].Domain)) \o ": {\n"
               \o writeEntries(buildTailwindFontsNested(rs[i].Fonts))
               \o "    },\n")
         \o tailwindBatchFonts(rs, i + 1)

FormatQuickTailwindBatch(rs) ==
    IF Len(rs) = 0 THEN "module.exports = {\n}"
    ELSE IF Len(rs) = 1 THEN FormatQuickTailwind(rs[1])
    ELSE LET hasColors == \E i \in DOMAIN rs : Len(rs[i].Colors) > 0
             hasFonts == \E i \in DOMAIN rs : Len(rs[i].Fonts) > 0
         IN "// Tailwind CSS config for multiple brands\n"
            \o "// Add to your tailwind.config.js theme.extend\n"
            \o "module.exports = {\n"
            \o (IF hasColors
                THEN "  colors: {\n" \o tailwindBatchColors(rs, 1) \o "  },\n"
                ELSE "")
            \o (IF hasFonts
                THEN "  fontFamily: {\n" \o tailwindBatchFonts(rs, 1) \o "  },\n"
                ELSE "")
            \o "}"

(***************************************************************************)
(* Checksum engine: manifest parsing and writing (internal/cmd/checksum.go) *)
(***************************************************************************)
\* unicode.IsSpace, on the characters of the model
IsSpace(c) == c \in {" ", "\t", "\n", "\r", "\f"}

\* the ASCII characters from byte 32 to byte 95
Printable ==
    <<
       " ", "!", "\"", "#", "$", "%", "&", "'", "(", ")", "*", "+",
       ",", "-", ".", "/", "0", "1", "2", "3", "4", "5", "6", "7",
       "8", "9", ":", ";", "<", "=", ">", "?", "@", "A", "B", "C",
       "D", "E", "F", "G", "H", "I", "J", "K", "L", "M", "N", "O",
       "P", "Q", "R", "S", "T", "U", "V", "W", "X", "Y", "Z", "[",
       "\\", "]", "^", "_" >>

\* the ASCII characters from byte 97 to byte 126
LowerASCII ==
    <<
       "a", "b", "c", "d", "e", "f", "g", "h", "i", "j", "k", "l",
       "m", "n", "o", "p", "q", "r", "s", "t", "u", "v", "w", "x",
       "y", "z", "{", "|", "}", "~" >>

\* byte value of the characters of the model, the order sort.Strings uses
CharCode ==
    [c \in Range(Printable) \cup Range(LowerASCII) \cup {"\t", "\n", "\f", "\r"} |->
        CASE c = "\t" -> 9   [] c = "\n" -> 10  [] c = "\f" -> 12  [] c = "\r" -> 13
          [] c \in Range(Printable) ->
                31 + (CHOOSE i \in DOMAIN Printable : Printable[i] = c)
          [] OTHER ->
                96 + (CHOOSE i \in DOMAIN LowerASCII : LowerASCII[i] = c)]

\* a < b for Go strings: bytewise lexicographic order
RECURSIVE StringLess(_, _)
StringLess(a, b) ==
    IF b = <<>> THEN FALSE
    ELSE IF a = <<>> THEN TRUE
    ELSE IF a[1] # b[1] THEN CharCode[a[1]] < CharCode[b[1]]
    ELSE StringLess(Tail(a), Tail(b))

\* sort.Strings on the keys of a map: the keys in descending order (a slip)
RECURSIVE sortStringsDescending(_)
sortStringsDescending(S) ==
    IF S = {} THEN <<>>
    ELSE LET greatest == CHOOSE x \in S : \A y \in S \ {x} : StringLess(y, x)
         IN <<greatest>> \o sortStringsDescending(S \ {greatest})

\* sort.Strings on the keys of a map: the keys in ascending order
RECURSIVE sortStrings(_)
sortStrings(S) ==
    IF S = {} THEN <<>>
    ELSE LET least == CHOOSE x \in S : \A y \in S \ {x} : StringLess(x, y)
         IN <<least>> \o sortStrings(S \ {least})

\* strings.Split(s, sep) for a one-character separator
RECURSIVE Split(_, _)
Split(s, sep) ==
    IF \A i \in DOMAIN s : s[i] # sep THEN <<s>>
    ELSE LET k == CHOOSE i \in DOMAIN s : s[i] = sep /\ \A j \in 1..(i - 1) : s[j] # sep
         IN <<SubSeq(s, 1, k - 1)>> \o Split(SubSeq(s, k + 1, Len(s)), sep)

RECURSIVE TrimLeftSpace(_)
TrimLeftSpace(s) ==
    IF s # <<>> /\ IsSpace(s[1]) THEN TrimLeftSpace(Tail(s)) ELSE s

RECURSIVE TrimRightSpace(_)
TrimRightSpace(s) ==
    IF s # <<>> /\ IsSpace(s[Len(s)])
    THEN TrimRightSpace(SubSeq(s, 1, Len(s) - 1))
    ELSE s

TrimSpace(s) == TrimRightSpace(TrimLeftSpace(s))

\* strings.Fields: the maximal runs of non-space characters
RECURSIVE Fields(_)
Fields(s) ==
    LET t == TrimLeftSpace(s)
    IN IF t = <<>> THEN <<>>
       ELSE LET stop == IF \E i \in DOMAIN t : IsSpace(t[i])
                        THEN CHOOSE i \in DOMAIN t :
                                 IsSpace(t[i]) /\ \A j \in 1..(i - 1) : ~IsSpace(t[j])
                        ELSE Len(t) + 1
            IN <<SubSeq(t, 1, stop - 1)>> \o Fields(SubSeq(t, stop, Len(t)))

\* entries[k] = v on a Go map[string]string
mapPut(m, k, v) == [x \in DOMAIN m \cup {k} |-> IF x = k THEN v ELSE m[x]]

\* the loop over the lines of parseSHA256Manifest
RECURSIVE parseLines(_, _)
parseLines(lines, entries) ==
    IF lines = <<>> THEN entries
    ELSE LET trimmed == TrimSpace(lines[1])
             parts == Fields(trimmed)
             hash == parts[1]
             filename == TrimPrefix(TrimPrefix(parts[2], <<"*">>), <<".", "/">>)
         IN IF trimmed = <<>> \/ HasPrefix(trimmed, <<"#">>)
            THEN parseLines(Tail(lines), entries)
            ELSE IF Len(parts) < 2
            THEN parseLines(Tail(lines), entries)
            ELSE IF filename # <<>>
            THEN parseLines(Tail(lines), mapPut(entries, filename, hash))
            ELSE parseLines(Tail(lines), entries)

\* the elements of s from the last to the first
RECURSIVE Reverse(_)
Reverse(s) == IF s = <<>> THEN <<>> ELSE Reverse(Tail(s)) \o <<s[1]>>

\* a slip in parseSHA256Manifest: of two lines with one key the earlier wins
parseSHA256ManifestFirstWins(file) ==
    IF ~file.exists
    THEN [err |-> TRUE, entries |-> EmptyMap]
    ELSE [err |-> FALSE, entries |-> parseLines(Reverse(Split(file.data, "\n")), EmptyMap)]

\* os.ReadFile fails on a file that does not exist
parseSHA256Manifest(file) ==
    IF ~file.exists
    THEN [err |-> TRUE, entries |-> EmptyMap]
    ELSE [err |-> FALSE, entries |-> parseLines(Split(file.data, "\n"), EmptyMap)]

\* for _, entry := range entries { merged[entry.Path] = entry.Sum }
RECURSIVE mergeEntries(_, _)
mergeEntries(m, entries) ==
    IF entries = <<>> THEN m
    ELSE IF entries[1].Path = <<>> \/ entries[1].Sum = <<>>
         THEN mergeEntries(m, Tail(entries))
         ELSE mergeEntries(mapPut(m, entries[1].Path, entries[1].Sum), Tail(entries))

\* Sprintf("%s  %s\n", merged[name], name) for each name of paths
RECURSIVE manifestText(_, _)
manifestText(m, paths) ==
    IF paths = <<>> THEN <<>>
    ELSE m[paths[1]] \o <<" ", " ">> \o paths[1] \o <<"\n">>
         \o manifestText(m, Tail(paths))

\* a slip in writeSHA256Manifest: an empty entry list is refused only when
\* appendExisting is false
writeSHA256ManifestEmptyAppendAllowed(file, entries, appendExisting) ==
    IF Len(entries) = 0 /\ ~appendExisting
    THEN [err |-> TRUE, file |-> file]
    ELSE LET existing == parseSHA256Manifest(file)
             start == IF appendExisting /\ ~existing.err THEN existing.entries ELSE EmptyMap
             m == mergeEntries(start, entries)
         IN [err |-> FALSE,
             file |-> [exists |-> TRUE, data |-> manifestText(m, sortStrings(DOMAIN m))]]

\* the result and the file at path after writeSHA256Manifest(path, entries, appendExisting)
writeSHA256Manifest(file, entries, appendExisting) ==
    IF Len(entries) = 0
    THEN [err |-> TRUE, file |-> file]
    ELSE LET existing == parseSHA256Manifest(file)
             start == IF appendExisting /\ ~existing.err THEN existing.entries ELSE EmptyMap
             m == mergeEntries(start, entries)
         IN [err |-> FALSE,
             file |-> [exists |-> TRUE, data |-> manifestText(m, sortStrings(DOMAIN m))]]

(***************************************************************************)
(* Checksum engine: paths, digests and verification                        *)
(***************************************************************************)
\* strings.Join(parts, "/")
RECURSIVE joinSlash(_)
joinSlash(parts) ==
    IF parts = <<>> THEN <<>>
    ELSE IF Len(parts) = 1 THEN parts[1]
    ELSE parts[1] \o <<"/">> \o joinSlash(Tail(parts))

\* the elements of a path filepath.Clean keeps, out being those kept so far:
\* empty elements and "." go, ".." takes the element before it, stays at
\* the head of a relative path and goes at the root
RECURSIVE cleanElems(_, _, _)
cleanElems(elems, out, rooted) ==
    IF elems = <<>> THEN out
    ELSE IF elems[1] \in {<<>>, <<".">>} THEN cleanElems(Tail(elems), out, rooted)
    ELSE IF elems[1] # <<".", ".">> THEN cleanElems(Tail(elems), Append(out, elems[1]), rooted)
    ELSE IF out # <<>> /\ out[Len(out)] # <<".", ".">>
    THEN cleanElems(Tail(elems), SubSeq(out, 1, Len(out) - 1), rooted)
    ELSE IF rooted THEN cleanElems(Tail(elems), out, rooted)
    ELSE cleanElems(Tail(elems), Append(out, elems[1]), rooted)

\* filepath.Clean(path), the separator being "/"
cleaned(elems, rooted) ==
    IF rooted THEN <<"/">> \o joinSlash(elems)
    ELSE IF elems = <<>> THEN <<".">>
    ELSE joinSlash(elems)
Clean(path) ==
    IF path = <<>> THEN <<".">>
    ELSE cleaned(cleanElems(Split(path, "/"), <<>>, path[1] = "/"), path[1] = "/")

\* filepath.Base(path): the last element, trailing separators aside
RECURSIVE trimSlashes(_)
trimSlashes(path) ==
    IF path # <<>> /\ path[Len(path)] = "/"
    THEN trimSlashes(SubSeq(path, 1, Len(path) - 1))
    ELSE path
baseOf(trimmed) == Split(trimmed, "/")[Len(Split(trimmed, "/"))]
Base(path) ==
    IF path = <<>> THEN <<".">>
    ELSE IF trimSlashes(path) = <<>> THEN <<"/">>
    ELSE baseOf(trimSlashes(path))

\* filepath.Join(dir, name): the elements that are not empty, joined and
\* cleaned
Join(dir, name) ==
    IF dir # <<>> THEN Clean(dir \o <<"/">> \o name)
    ELSE IF name # <<>> THEN Clean(name)
    ELSE <<>>

\* filepath.Rel, the loop over the elements base and targ share: bi and ti
\* bytes of them are read; it ends with b0 and t0 where the elements they
\* do not share start, the first of base ending at bi
relEnd(s, i) ==
    IF \E j \in (i + 1)..Len(s) : s[j] = "/"
    THEN (CHOOSE j \in (i + 1)..Len(s) : s[j] = "/" /\ \A k \in (i + 1)..(j - 1) : s[k] # "/") - 1
    ELSE Len(s)
RECURSIVE relScan(_, _, _, _)
relStep(base, targ, b0, t0, bi, ti) ==
    IF SubSeq(targ, t0 + 1, ti) # SubSeq(base, b0 + 1, bi)
    THEN [b0 |-> b0, bi |-> bi, t0 |-> t0]
    ELSE relScan(base, targ, IF bi < Len(base) THEN bi + 1 ELSE bi,
                 IF ti < Len(targ) THEN ti + 1 ELSE ti)
relScan(base, targ, bi, ti) ==
    IF bi < Len(base) /\ ti < Len(targ)
    THEN relStep(base, targ, bi, ti, relEnd(base, bi), relEnd(targ, ti))
    ELSE [b0 |-> bi, bi |-> relEnd(base, bi), t0 |-> ti]

\* filepath.Rel after the loop: ".." in base where the paths part is an
\* error; else one ".." for each element base has left, then what targ has
\* left
relUps(n) == joinSlash([i \in 1..n |-> <<".", ".">>])
relFrom(base, targ, at) ==
    IF SubSeq(base, at.b0 + 1, at.bi) = <<".", ".">> THEN [err |-> TRUE, rel |-> <<>>]
    ELSE IF at.b0 # Len(base)
    THEN [err |-> FALSE,
          rel |-> relUps(1 + Cardinality({k \in (at.b0 + 1)..Len(base) : base[k] = "/"}))
                  \o (IF at.t0 # Len(targ)
                      THEN <<"/">> \o SubSeq(targ, at.t0 + 1, Len(targ)) ELSE <<>>)]
    ELSE [err |-> FALSE, rel |-> SubSeq(targ, at.t0 + 1, Len(targ))]

\* filepath.Rel of two cleaned paths, the base "." being the empty path; a
\* rooted path and one that is not are an error
relSlashed(base, targ) ==
    IF (base # <<>> /\ base[1] = "/") # (targ # <<>> /\ targ[1] = "/")
    THEN [err |-> TRUE, rel |-> <<>>]
    ELSE relFrom(base, targ, relScan(base, targ, 0, 0))
relCleaned(base, targ) ==
    IF targ = base THEN [err |-> FALSE, rel |-> <<".">>]
    ELSE relSlashed(IF base = <<".">> THEN <<>> ELSE base, targ)

\* filepath.Rel(basepath, targpath): the error, and the relative path
Rel(basepath, targpath) == relCleaned(Clean(basepath), Clean(targpath))

\* hex.EncodeToString(sha256 of the content): one digest per content,
\* in lower-case hex
SHA256Hex(data) ==
    CASE data = <<"A">> -> <<"a", "b">>
      [] data = <<"B">> -> <<"c", "d">>
      [] OTHER -> <<"e", "f">>

\* strings.ToLower and simple case folding of one ASCII character
ToLower(c) ==
    IF \E i \in 34..59 : Printable[i] = c
    THEN LowerASCII[(CHOOSE i \in 34..59 : Printable[i] = c) - 33]
    ELSE c

\* strings.EqualFold
EqualFold(a, b) ==
    Len(a) = Len(b) /\ \A i \in DOMAIN a : ToLower(a[i]) = ToLower(b[i])

\* computeSHA256 of the file at a path: os.Open fails when it does not exist
computeSHA256(file) ==
    IF ~file.exists
    THEN [err |-> "failed to open file for checksum", sum |-> <<>>]
    ELSE [err |-> "", sum |-> SHA256Hex(file.data)]

\* a slip in verifySHA256: the digests are compared byte for byte
verifySHA256CaseSensitive(file, expected) ==
    LET c == computeSHA256(file)
    IN IF c.err # "" THEN [ok |-> FALSE, err |-> c.err]
       ELSE [ok |-> c.sum = TrimSpace(expected), err |-> ""]

\* verifySHA256(path, expected), file being the file at path
verifySHA256(file, expected) ==
    LET c == computeSHA256(file)
    IN IF c.err # "" THEN [ok |-> FALSE, err |-> c.err]
       ELSE [ok |-> EqualFold(c.sum, TrimSpace(expected)), err |-> ""]

\* checksum.go:75-80, the keys of a path whose filepath.Rel to root is rel:
\* the relative path first, when there is a root, filepath.Rel returned no
\* error and the path is neither empty nor ".", then the base name
keysWith(rel, path, root) ==
    IF root # <<>> /\ ~rel.err /\ rel.rel # <<>> /\ rel.rel # <<".">>
    THEN <<rel.rel, Base(path)>>
    ELSE <<Base(path)>>

\* a slip in the keys of verifySHA256ManifestEntry: the base name only
manifestKeysBaseOnly(path, root) == <<Base(path)>>

\* the keys verifySHA256ManifestEntry looks path up under
manifestKeys(path, root) == keysWith(Rel(root, path), path, root)

\* the error of verifySHA256ManifestEntry(path, root, manifest), "" for nil;
\* file is the file at path
verifySHA256ManifestEntry(path, root, m, file) ==
    IF m.nil THEN ""
    ELSE LET keys == manifestKeys(path, root)
             found == {i \in DOMAIN keys : keys[i] \in DOMAIN m.map}
         IN IF found = {}
            THEN "no manifest entry for " \o Text(Base(path))
            ELSE LET first == CHOOSE i \in found : \A j \in found : i <= j
                     expected == m.map[keys[first]]
                     v == verifySHA256(file, expected)
                 IN IF v.err # "" THEN v.err
                    ELSE IF ~v.ok THEN "expected " \o Text(expected)
                    ELSE ""

\* buildChecksumEntry(path, root), file being the file at path: the entry of
\* the path relative to root, or of the base name as in manifestKeys
entryWith(c, rel, path, root) ==
    IF c.err # "" THEN [err |-> c.err, entry |-> [Path |-> <<>>, Sum |-> <<>>]]
    ELSE [err |-> "",
          entry |-> [Path |-> IF root # <<>> /\ ~rel.err /\ rel.rel # <<>> /\ rel.rel # <<".">>
                              THEN rel.rel ELSE Base(path),
                     Sum |-> c.sum]]
buildChecksumEntry(path, root, file) ==
    entryWith(computeSHA256(file), Rel(root, path), path, root)

(***************************************************************************)
(* Quick command: directories, asset slots, export (internal/cmd/quick.go) *)
(***************************************************************************)
sanitizeDirName(domain) == ReplaceAll(trimTLDs(domain), ".", "-")

\* the part of s before the first c, s itself without c
cutAt(s, c) ==
    IF \A i \in DOMAIN s : s[i] # c THEN s
    ELSE LET k == CHOOSE i \in DOMAIN s : s[i] = c /\ \A j \in 1..(i - 1) : s[j] # c
         IN SubSeq(s, 1, k - 1)

\* the position of the first and of the last c in s, 0 without c
Index(s, c) ==
    IF \A i \in DOMAIN s : s[i] # c THEN 0
    ELSE CHOOSE i \in DOMAIN s : s[i] = c /\ \A j \in 1..(i - 1) : s[j] # c
LastIndex(s, c) ==
    IF \A i \in DOMAIN s : s[i] # c THEN 0
    ELSE CHOOSE i \in DOMAIN s : s[i] = c /\ \A j \in (i + 1)..Len(s) : s[j] # c

\* net/url works on bytes: the classes of the characters of the model
IsCTL(c) == c \in {"\t", "\n", "\f", "\r"}
IsDigit(c) == c \in {"0", "1", "2", "3", "4", "5", "6", "7", "8", "9"}
IsLetter(c) ==
    c \in {"a", "b", "c", "d", "e", "f", "g", "h", "i", "j", "k", "l", "m", "n", "o", "p",
           "q", "r", "s", "t", "u", "v", "w", "x", "y", "z", "A", "B", "C", "D", "E", "F",
           "G", "H", "I", "J", "K", "L", "M", "N", "O", "P", "Q", "R", "S", "T", "U", "V",
           "W", "X", "Y", "Z"}

\* the hexadecimal digits, each at its value plus one; the letters in both
\* cases
HexDigits ==
    << "0", "1", "2", "3", "4", "5", "6", "7", "8", "9", "A", "B", "C", "D", "E", "F" >>
ishex(c) ==
    c \in {"0", "1", "2", "3", "4", "5", "6", "7", "8", "9", "A", "B", "C", "D", "E", "F",
           "a", "b", "c", "d", "e", "f"}
unhex(c) ==
    IF c \in {"a", "b", "c", "d", "e", "f"}
    THEN 9 + (CHOOSE i \in 1..6 : <<"a", "b", "c", "d", "e", "f">>[i] = c)
    ELSE (CHOOSE i \in DOMAIN HexDigits : HexDigits[i] = c) - 1

\* the character of byte b; a byte that is no character of the model is one
\* element that names it by its escape
byteChar(b) ==
    IF b \in 32..95 THEN Printable[b - 31]
    ELSE IF b \in 97..126 THEN LowerASCII[b - 96]
    ELSE IF b \in {9, 10, 12, 13} THEN <<"\t", "\n", "", "\f", "\r">>[b - 8]
    ELSE "%" \o HexDigits[(b \div 16) + 1] \o HexDigits[(b % 16) + 1]

\* net/url shouldEscape(c, encodeHost): true of every byte that is no
\* letter, no digit and none of the marks a host may hold
shouldEscapeHost(c) ==
    /\ ~IsLetter(c) /\ ~IsDigit(c)
    /\ c \notin {"!", "$", "&", "'", "(", ")", "*", "+", ",", ";", "=", ":", "[", "]",
                 "<", ">", "\"", "-", "_", ".", "~"}

\* the character at the head of s once unescaped, "" for a malformed escape
unescapeHead(s) ==
    IF s[1] # "%" THEN s[1]
    ELSE IF Len(s) >= 3 /\ \A i \in 2..3 : ishex(s[i])
    THEN byteChar(16 * unhex(s[2]) + unhex(s[3]))
    ELSE ""

\* whether unescape refuses the head of s, which unescaped is c: a malformed
\* escape, or a character a host cannot hold
unescapeRefuses(s, mode, c) ==
    IF s[1] = "%"
    THEN \/ c = ""
         \/ mode = "host" /\ s[2] \in {"0", "1", "2", "3", "4", "5", "6", "7"}
            /\ SubSeq(s, 1, 3) # <<"%", "2", "5">>
         \/ mode = "zone" /\ SubSeq(s, 1, 3) # <<"%", "2", "5">> /\ c # " "
            /\ shouldEscapeHost(c)
    ELSE mode \in {"host", "zone"} /\ shouldEscapeHost(c)

\* c before the text r holds, the error of r kept
unescapedAfter(c, r) == [err |-> r.err, out |-> IF r.err THEN <<>> ELSE <<c>> \o r.out]

\* net/url unescape(s, mode) for the modes "path", "fragment", "user", "host"
\* and "zone": the error of a malformed escape or of a character a host
\* cannot hold, and the decoded text
RECURSIVE unescape(_, _)
unescapeFrom(s, mode, c) ==
    IF unescapeRefuses(s, mode, c) THEN [err |-> TRUE, out |-> <<>>]
    ELSE unescapedAfter(c, unescape(SubSeq(s, IF s[1] = "%" THEN 4 ELSE 2, Len(s)), mode))
unescape(s, mode) ==
    IF s = <<>> THEN [err |-> FALSE, out |-> <<>>] ELSE unescapeFrom(s, mode, unescapeHead(s))

\* net/url getScheme: the scheme before the first colon and what follows it,
\* no scheme when another character than a letter, a digit, + - . comes first
RECURSIVE getSchemeFrom(_, _)
getSchemeFrom(rawURL, i) ==
    IF i > Len(rawURL) THEN [err |-> FALSE, scheme |-> <<>>, rest |-> rawURL]
    ELSE IF IsLetter(rawURL[i]) \/ (i > 1 /\ (IsDigit(rawURL[i]) \/ rawURL[i] \in {"+", "-", "."}))
    THEN getSchemeFrom(rawURL, i + 1)
    ELSE IF rawURL[i] = ":"
    THEN IF i = 1 THEN [err |-> TRUE, scheme |-> <<>>, rest |-> <<>>]
         ELSE [err |-> FALSE, scheme |-> SubSeq(rawURL, 1, i - 1),
               rest |-> SubSeq(rawURL, i + 1, Len(rawURL))]
    ELSE [err |-> FALSE, scheme |-> <<>>, rest |-> rawURL]
getScheme(rawURL) == getSchemeFrom(rawURL, 1)

\* net/url validOptionalPort
validOptionalPort(port) ==
    port = <<>> \/ (port[1] = ":" /\ \A i \in 2..Len(port) : IsDigit(port[i]))

\* the position of the first "%25" in s, 0 without it
zoneIndex(s) ==
    LET at == {i \in 1..(Len(s) - 2) : SubSeq(s, i, i + 2) = <<"%", "2", "5">>}
    IN IF at = {} THEN 0 ELSE CHOOSE i \in at : \A j \in at : i <= j

\* the parts of a host net/url parseHost unescapes, each with its mode: the
\* host, or for an IPv6 literal with a zone at position zone and its closing
\* bracket at position i the three parts around the zone
hostParts(host, zone, i) ==
    IF zone > 0
    THEN { <<SubSeq(host, 1, zone - 1), "host">>,
           <<SubSeq(host, zone, i - 1), "zone">>,
           <<SubSeq(host, i, Len(host)), "host">> }
    ELSE { <<host, "host">> }

\* net/url parseHost for a host whose closing bracket, or last colon without
\* brackets, is at position i: whether the brackets or the port are wrong,
\* and the parts it unescapes
parseHostAt(host, literal, i) ==
    [err |-> \/ literal /\ i = 0
             \/ (literal \/ i > 0)
                /\ ~validOptionalPort(SubSeq(host, IF literal THEN i + 1 ELSE i, Len(host))),
     parts |-> hostParts(host, IF literal THEN zoneIndex(SubSeq(host, 1, i - 1)) ELSE 0, i)]
parseHost(host) ==
    parseHostAt(host, HasPrefix(host, <<"[">>),
                LastIndex(host, IF HasPrefix(host, <<"[">>) THEN "]" ELSE ":"))

\* net/url validUserinfo
validUserinfo(s) ==
    \A i \in DOMAIN s :
        \/ IsLetter(s[i]) \/ IsDigit(s[i])
        \/ s[i] \in {"-", ".", "_", ":", "~", "!", "$", "&", "'", "(", ")", "*", "+", ",",
                     ";", "=", "%", "@"}

\* net/url parseAuthority for an authority whose last "@" is at position i:
\* whether the host or the user information are wrong, and the parts it
\* unescapes
parseAuthorityWith(userinfo, hasUser, host) ==
    [err |-> host.err \/ (hasUser /\ ~validUserinfo(userinfo)),
     parts |-> host.parts \cup (IF hasUser THEN { <<userinfo, "user">> } ELSE {})]
parseAuthorityAt(authority, i) ==
    parseAuthorityWith(SubSeq(authority, 1, i - 1), i > 0,
                       parseHost(SubSeq(authority, i + 1, Len(authority))))
parseAuthority(authority) == parseAuthorityAt(authority, LastIndex(authority, "@"))

\* the result of url.Parse: the failure, and the path unescaped when there
\* is none
urlParsed(failed, path) ==
    [err |-> failed, Path |-> IF failed THEN <<>> ELSE unescape(path, "path").out]

\* the end of net/url parse and of url.Parse: the parts are unescaped, and
\* one that cannot be fails the parse
urlParseParts(refused, path, parts) ==
    urlParsed(refused \/ \E p \in parts \cup { <<path, "path">> } : unescape(p[1], p[2]).err,
              path)

\* net/url parse after the scheme, for a URL with an authority (what follows
\* the two slashes is afterSlashes) and for one without
urlParseAuthority(authority, afterSlashes, frag) ==
    urlParseParts(authority.err,
                  SubSeq(afterSlashes, Len(cutAt(afterSlashes, "/")) + 1, Len(afterSlashes)),
                  authority.parts \cup { <<frag, "fragment">> })
urlParseRest(scheme, rest, frag) ==
    IF ~HasPrefix(rest, <<"/">>) /\ scheme # <<>>
    THEN urlParseParts(FALSE, <<>>, { <<frag, "fragment">> })
    ELSE IF /\ HasPrefix(rest, <<"/", "/">>)
            /\ (scheme # <<>> \/ ~HasPrefix(rest, <<"/", "/", "/">>))
    THEN urlParseAuthority(parseAuthority(cutAt(SubSeq(rest, 3, Len(rest)), "/")),
                           SubSeq(rest, 3, Len(rest)), frag)
    ELSE urlParseParts(~HasPrefix(rest, <<"/">>) /\ Index(cutAt(rest, "/"), ":") > 0,
                       rest, { <<frag, "fragment">> })
urlParseScheme(sch, frag) ==
    IF sch.err THEN urlParsed(TRUE, <<>>)
    ELSE urlParseRest(sch.scheme, cutAt(sch.rest, "?"), frag)

\* url.Parse(rawURL) for a URL whose part before the fragment is u: whether
\* it fails, and the Path of the URL it returns, empty when it fails
urlParseFragment(u, frag) ==
    IF \E i \in DOMAIN u : IsCTL(u[i]) THEN urlParsed(TRUE, <<>>)
    ELSE IF u = <<"*">> THEN urlParseParts(FALSE, u, { <<frag, "fragment">> })
    ELSE urlParseScheme(getScheme(u), frag)
urlParse(rawURL) ==
    urlParseFragment(cutAt(rawURL, "#"),
                     SubSeq(rawURL, Len(cutAt(rawURL, "#")) + 2, Len(rawURL)))

urlPath(rawURL) == urlParse(rawURL).Path

\* filepath.Ext: the suffix from the last dot of the last element of path
Ext(path) ==
    LET dots == {i \in DOMAIN path :
                    path[i] = "." /\ \A j \in (i + 1)..Len(path) : path[j] \notin {".", "/"}}
    IN IF dots = {} THEN <<>>
       ELSE LET d == CHOOSE i \in dots : TRUE IN SubSeq(path, d, Len(path))

\* the byte of an element of a decoded text: a character of the model, or
\* the byte an element "%HH" names
byteOf(e) ==
    IF Len(e) = 3 THEN 16 * unhex(SubSeq(e, 2, 2)) + unhex(SubSeq(e, 3, 3)) ELSE CharCode[e]

\* the runes above ASCII unicode.ToLower changes, of Unicode 14, as ranges
\* <<first, last, stride, delta>>: each rune of the range at a multiple of
\* stride from first is lower-cased by adding delta
LowerRanges ==
    <<
      <<192, 214, 1, 32>>, <<216, 222, 1, 32>>, <<256, 302, 2, 1>>, <<304, 304, 1, -199>>,
      <<306, 310, 2, 1>>, <<313, 327, 2, 1>>, <<330, 374, 2, 1>>, <<376, 376, 1, -121>>,
      <<377, 381, 2, 1>>, <<385, 385, 1, 210>>, <<386, 388, 2, 1>>, <<390, 390, 1, 206>>,
      <<391, 391, 1, 1>>, <<393, 394, 1, 205>>, <<395, 395, 1, 1>>, <<398, 398, 1, 79>>,
      <<399, 399, 1, 202>>, <<400, 400, 1, 203>>, <<401, 401, 1, 1>>, <<403, 403, 1, 205>>,
      <<404, 404, 1, 207>>, <<406, 406, 1, 211>>, <<407, 407, 1, 209>>, <<408, 408, 1, 1>>,
      <<412, 412, 1, 211>>, <<413, 413, 1, 213>>, <<415, 415, 1, 214>>, <<416, 420, 2, 1>>,
      <<422, 422, 1, 218>>, <<423, 423, 1, 1>>, <<425, 425, 1, 218>>, <<428, 428, 1, 1>>,
      <<430, 430, 1, 218>>, <<431, 431, 1, 1>>, <<433, 434, 1, 217>>, <<435, 437, 2, 1>>,
      <<439, 439, 1, 219>>, <<440, 440, 1, 1>>, <<444, 444, 1, 1>>, <<452, 452, 1, 2>>,
      <<453, 453, 1, 1>>, <<455, 455, 1, 2>>, <<456, 456, 1, 1>>, <<458, 458, 1, 2>>,
      <<459, 475, 2, 1>>, <<478, 494, 2, 1>>, <<497, 497, 1, 2>>, <<498, 500, 2, 1>>,
      <<502, 502, 1, -97>>, <<503, 503, 1, -56>>, <<504, 542, 2, 1>>, <<544, 544, 1, -130>>,
      <<546, 562, 2, 1>>, <<570, 570, 1, 10795>>, <<571, 571, 1, 1>>, <<573, 573, 1, -163>>,
      <<574, 574, 1, 10792>>, <<577, 577, 1, 1>>, <<579, 579, 1, -195>>, <<580, 580, 1, 69>>,
      <<581, 581, 1, 71>>, <<582, 590, 2, 1>>, <<880, 882, 2, 1>>, <<886, 886, 1, 1>>,
      <<895, 895, 1, 116>>, <<902, 902, 1, 38>>, <<904, 906, 1, 37>>, <<908, 908, 1, 64>>,
      <<910, 911, 1, 63>>, <<913, 929, 1, 32>>, <<931, 939, 1, 32>>, <<975, 975, 1, 8>>,
      <<984, 1006, 2, 1>>, <<1012, 1012, 1, -60>>, <<1015, 1015, 1, 1>>, <<1017, 1017, 1, -7>>,
      <<1018, 1018, 1, 1>>, <<1021, 1023, 1, -130>>, <<1024, 1039, 1, 80>>,
      <<1040, 1071, 1, 32>>, <<1120, 1152, 2, 1>>, <<1162, 1214, 2, 1>>, <<1216, 1216, 1, 15>>,
      <<1217, 1229, 2, 1>>, <<1232, 1326, 2, 1>>, <<1329, 1366, 1, 48>>,
      <<4256, 4293, 1, 7264>>, <<4295, 4295, 1, 7264>>, <<4301, 4301, 1, 7264>>,
      <<5024, 5103, 1, 38864>>, <<5104, 5109, 1, 8>>, <<7312, 7354, 1, -3008>>,
      <<7357, 7359, 1, -3008>>, <<7680, 7828, 2, 1>>, <<7838, 7838, 1, -7615>>,
      <<7840, 7934, 2, 1>>, <<7944, 7951, 1, -8>>, <<7960, 7965, 1, -8>>,
      <<7976, 7983, 1, -8>>, <<7992, 7999, 1, -8>>, <<8008, 8013, 1, -8>>,
      <<8025, 8031, 2, -8>>, <<8040, 8047, 1, -8>>, <<8072, 8079, 1, -8>>,
      <<8088, 8095, 1, -8>>, <<8104, 8111, 1, -8>>, <<8120, 8121, 1, -8>>,
      <<8122, 8123, 1, -74>>, <<8124, 8124, 1, -9>>, <<8136, 8139, 1, -86>>,
      <<8140, 8140, 1, -9>>, <<8152, 8153, 1, -8>>, <<8154, 8155, 1, -100>>,
      <<8168, 8169, 1, -8>>, <<8170, 8171, 1, -112>>, <<8172, 8172, 1, -7>>,
      <<8184, 8185, 1, -128>>, <<8186, 8187, 1, -126>>, <<8188, 8188, 1, -9>>,
      <<8486, 8486, 1, -7517>>, <<8490, 8490, 1, -8383>>, <<8491, 8491, 1, -8262>>,
      <<8498, 8498, 1, 28>>, <<8544, 8559, 1, 16>>, <<8579, 8579, 1, 1>>,
      <<9398, 9423, 1, 26>>, <<11264, 11311, 1, 48>>, <<11360, 11360, 1, 1>>,
      <<11362, 11362, 1, -10743>>, <<11363, 11363, 1, -3814>>, <<11364, 11364, 1, -10727>>,
      <<11367, 11371, 2, 1>>, <<11373, 11373, 1, -10780>>, <<11374, 11374, 1, -10749>>,
      <<11375, 11375, 1, -10783>>, <<11376, 11376, 1, -10782>>, <<11378, 11378, 1, 1>>,
      <<11381, 11381, 1, 1>>, <<11390, 11391, 1, -10815>>, <<11392, 11490, 2, 1>>,
      <<11499, 11501, 2, 1>>, <<11506, 11506, 1, 1>>, <<42560, 42604, 2, 1>>,
      <<42624, 42650, 2, 1>>, <<42786, 42798, 2, 1>>, <<42802, 42862, 2, 1>>,
      <<42873, 42875, 2, 1>>, <<42877, 42877, 1, -35332>>, <<42878, 42886, 2, 1>>,
      <<42891, 42891, 1, 1>>, <<42893, 42893, 1, -42280>>, <<42896, 42898, 2, 1>>,
      <<42902, 42920, 2, 1>>, <<42922, 42922, 1, -42308>>, <<42923, 42923, 1, -42319>>,
      <<42924, 42924, 1, -42315>>, <<42925, 42925, 1, -42305>>, <<42926, 42926, 1, -42308>>,
      <<42928, 42928, 1, -42258>>, <<42929, 42929, 1, -42282>>, <<42930, 42930, 1, -42261>>,
      <<42931, 42931, 1, 928>>, <<42932, 42946, 2, 1>>, <<42948, 42948, 1, -48>>,
      <<42949, 42949, 1, -42307>>, <<42950, 42950, 1, -35384>>, <<42951, 42953, 2, 1>>,
      <<42960, 42960, 1, 1>>, <<42966, 42968, 2, 1>>, <<42997, 42997, 1, 1>>,
      <<65313, 65338, 1, 32>>, <<66560, 66599, 1, 40>>, <<66736, 66771, 1, 40>>,
      <<66928, 66938, 1, 39>>, <<66940, 66954, 1, 39>>, <<66956, 66962, 1, 39>>,
      <<66964, 66965, 1, 39>>, <<68736, 68786, 1, 64>>, <<71840, 71871, 1, 32>>,
      <<93760, 93791, 1, 32>>, <<125184, 125217, 1, 34>> >>

\* unicode.ToLower(r)
toLowerRune(r) ==
    IF r < 128 THEN (IF r \in 65..90 THEN r + 32 ELSE r)
    ELSE IF \E k \in DOMAIN LowerRanges :
                /\ r \in LowerRanges[k][1]..LowerRanges[k][2]
                /\ (r - LowerRanges[k][1]) % LowerRanges[k][3] = 0
    THEN r + LowerRanges[CHOOSE k \in DOMAIN LowerRanges :
                            /\ r \in LowerRanges[k][1]..LowerRanges[k][2]
                            /\ (r - LowerRanges[k][1]) % LowerRanges[k][3] = 0][4]
    ELSE r

\* utf8.DecodeRuneInString on the bytes b, not empty: the rune at their head
\* and its width, U+FFFD of width 1 for a byte that starts no valid encoding
decodeRune(b) ==
    IF b[1] < 128 THEN [rune |-> b[1], size |-> 1]
    ELSE IF b[1] \in 194..223 /\ Len(b) >= 2 /\ b[2] \in 128..191
    THEN [rune |-> (b[1] - 192) * 64 + (b[2] - 128), size |-> 2]
    ELSE IF /\ b[1] \in 224..239 /\ Len(b) >= 3
            /\ b[2] \in (IF b[1] = 224 THEN 160..191 ELSE IF b[1] = 237 THEN 128..159
                         ELSE 128..191)
            /\ b[3] \in 128..191
    THEN [rune |-> (b[1] - 224) * 4096 + (b[2] - 128) * 64 + (b[3] - 128), size |-> 3]
    ELSE IF /\ b[1] \in 240..244 /\ Len(b) >= 4
            /\ b[2] \in (IF b[1] = 240 THEN 144..191 ELSE IF b[1] = 244 THEN 128..143
                         ELSE 128..191)
            /\ b[3] \in 128..191 /\ b[4] \in 128..191
    THEN [rune |-> (b[1] - 240) * 262144 + (b[2] - 128) * 4096 + (b[3] - 128) * 64
                   + (b[4] - 128),
          size |-> 4]
    ELSE [rune |-> 65533, size |-> 1]

\* the UTF-8 encoding of the rune r
encodeRune(r) ==
    IF r < 128 THEN <<r>>
    ELSE IF r < 2048 THEN <<192 + (r \div 64), 128 + (r % 64)>>
    ELSE IF r < 65536
    THEN <<224 + (r \div 4096), 128 + ((r \div 64) % 64), 128 + (r % 64)>>
    ELSE <<240 + (r \div 262144), 128 + ((r \div 4096) % 64), 128 + ((r \div 64) % 64),
           128 + (r % 64)>>

\* strings.ToLower on bytes: each rune lower-cased and encoded again, a byte
\* that is no valid UTF-8 replaced by U+FFFD
RECURSIVE toLowerBytes(_)
toLowerFrom(b, d) ==
    encodeRune(toLowerRune(d.rune)) \o toLowerBytes(SubSeq(b, d.size + 1, Len(b)))
toLowerBytes(b) == IF b = <<>> THEN <<>> ELSE toLowerFrom(b, decodeRune(b))

\* the text of the bytes b
bytesText(b) == [i \in DOMAIN b |-> byteChar(b[i])]

\* quick.go:339, strings.ToLower(ext)
toLowerText(s) == bytesText(toLowerBytes([i \in DOMAIN s |-> byteOf(s[i])]))

\* getExtensionFromURL: "" when url.Parse fails, the path then being empty
\* here, else the lower-cased extension of the path
getExtensionFromURL(rawURL) == toLowerText(Ext(urlPath(rawURL)))

\* a slip in the downloads list: the dark logo is queued before the light one
downloadsDarkFirst(result) ==
    (IF result.LogoDark # <<>>
     THEN << [url |-> result.LogoDark, filename |-> LogoDarkSVG] >> ELSE <<>>)
    \o (IF result.LogoLight # <<>>
        THEN << [url |-> result.LogoLight, filename |-> LogoLightSVG] >> ELSE <<>>)
    \o (IF result.Favicon # <<>>
        THEN << [url |-> result.Favicon,
                 filename |-> FaviconName \o getExtensionFromURL(result.Favicon)] >>
        ELSE <<>>)

\* the downloads list of downloadAssetsToDir
downloads(result) ==
    (IF result.LogoLight # <<>>
     THEN << [url |-> result.LogoLight, filename |-> LogoLightSVG] >> ELSE <<>>)
    \o (IF result.LogoDark # <<>>
        THEN << [url |-> result.LogoDark, filename |-> LogoDarkSVG] >> ELSE <<>>)
    \o (IF result.Favicon # <<>>
        THEN << [url |-> result.Favicon,
                 filename |-> FaviconName \o getExtensionFromURL(result.Favicon)] >>
        ELSE <<>>)

\* a slip in downloadAssetsBatch: the identifiers given decide on the
\* directory of a brand, not the brands fetched
targetDirByArgs(root, rs, result) ==
    IF Len(args) > 1 THEN Join(root, sanitizeDirName(result.Domain)) ELSE root

\* targetDir of downloadAssetsBatch for one result of the batch rs
targetDir(root, rs, result) ==
    IF Len(rs) > 1 THEN Join(root, sanitizeDirName(result.Domain)) ELSE root

\* strings.Join(names, sep) on texts
RECURSIVE joinText(_, _)
joinText(names, sep) ==
    IF names = <<>> THEN ""
    ELSE IF Len(names) = 1 THEN names[1]
    ELSE names[1] \o sep \o joinText(Tail(names), sep)

\* output.ParseFormat: the format a value of --output names, whatever its
\* case, or the error for a value that names none
ParseFormat(s) ==
    LET lower == [i \in DOMAIN s |-> ToLower(s[i])]
    IN IF lower = FormatTextName THEN [format |-> "text", err |-> ""]
       ELSE IF lower = FormatJSONName THEN [format |-> "json", err |-> ""]
       ELSE [format |-> "text",
             err |-> "invalid format: " \o Text(s) \o " (valid: text, json)"]

\* output.ParseColorMode and output.ResolveColorMode
ParseColorMode(s) ==
    LET lower == Text([i \in DOMAIN s |-> ToLower(s[i])])
    IN IF lower \in {"auto", "always", "never"} THEN [mode |-> lower, err |-> ""]
       ELSE [mode |-> "auto",
             err |-> "invalid color mode: " \o Text(s) \o " (valid: auto, always, never)"]
ResolveColorMode(mode, format, noColor, isTTY) ==
    IF format = "json" \/ noColor THEN FALSE
    ELSE IF mode = "always" THEN TRUE
    ELSE IF mode = "never" THEN FALSE
    ELSE isTTY

\* where the runs of the model take place: --color and BRANDFETCH_COLOR are
\* not given, NO_COLOR is not set, the primary stream is no terminal
ColorModeFlag == <<"a", "u", "t", "o">>
NoColorEnv == FALSE
StdoutIsTerminal == FALSE

\* resolveOutput: the format of the run, whether it is colored, the error
\* of a value of --output or of --color that names nothing
resolveOutput(f) ==
    LET parsed == ParseFormat(IF f.outputFormat = <<>> THEN FormatTextName
                              ELSE f.outputFormat)
        color == ParseColorMode(IF ColorModeFlag = <<>> THEN <<"a", "u", "t", "o">>
                                ELSE ColorModeFlag)
    IN IF parsed.err # ""
       THEN [format |-> parsed.format, colorize |-> FALSE, err |-> parsed.err]
       ELSE IF color.err # ""
       THEN [format |-> parsed.format, colorize |-> FALSE, err |-> color.err]
       ELSE [format |-> parsed.format,
             colorize |-> ResolveColorMode(color.mode, parsed.format, NoColorEnv,
                                           StdoutIsTerminal),
             err |-> ""]

\* what os.ReadFile may end in on a file: its content, or an error, the file
\* not being there or not being readable; what os.WriteFile may end in
ReadFileOutcomes(file) ==
    IF file.exists THEN {"ok", "permission denied"} ELSE {"no such file or directory"}
WriteFileOutcomes == {"ok", "permission denied"}

\* the file as a read with that outcome finds it: a read that fails gives
\* the caller an error and no content, whatever the reason
asRead(file, outcome) == IF outcome \in {"ok", "none"} THEN file ELSE NoFile

\* the characters of a text
Chars(text) == [i \in 1..Len(text) |-> SubSeq(text, i, i)]

\* strconv.ParseInt(s, 16, 0) of two characters: a sign and a digit, or two
\* digits; ok is false for anything else
parseHexPair(c1, c2) ==
    IF ishex(c2)
    THEN IF ishex(c1) THEN [ok |-> TRUE, value |-> 16 * unhex(c1) + unhex(c2)]
         ELSE IF c1 = "+" THEN [ok |-> TRUE, value |-> unhex(c2)]
         ELSE IF c1 = "-" THEN [ok |-> TRUE, value |-> 0 - unhex(c2)]
         ELSE [ok |-> FALSE, value |-> 0]
    ELSE [ok |-> FALSE, value |-> 0]

\* the byte 27 that opens a terminal control sequence
ESC == ""

\* colorizeHex: the hex value in its own color when enabled and of the form
\* #rrggbb, the hex value as it is otherwise
colorizeHex(hex, enabled) ==
    LET c == Chars(hex)
    IN IF ~enabled \/ Len(c) # 7 \/ c[1] # "#" THEN hex
       ELSE LET r == parseHexPair(c[2], c[3])
                g == parseHexPair(c[4], c[5])
                b == parseHexPair(c[6], c[7])
            IN IF ~r.ok \/ ~g.ok \/ ~b.ok THEN hex
               ELSE ESC \o "[38;2;" \o ToString(r.value) \o ";" \o ToString(g.value)
                    \o ";" \o ToString(b.value) \o "m" \o hex \o ESC \o "[0m"

\* the lines of the Colors and Fonts sections of FormatQuick
RECURSIVE quickColorLines(_, _)
quickColorLines(cs, colorize) ==
    IF cs = <<>> THEN ""
    ELSE "  " \o colorizeHex(cs[1].Hex, colorize) \o " (" \o cs[1].Type \o ")\n"
         \o quickColorLines(Tail(cs), colorize)

RECURSIVE quickFontLines(_)
quickFontLines(fs) ==
    IF fs = <<>> THEN ""
    ELSE "  " \o fs[1].Name \o " (" \o fs[1].Type \o ")\n" \o quickFontLines(Tail(fs))

\* encoding/json: a string as a JSON string, with the escapes of the
\* encoder (HTML characters included; form feed as the toolchains from
\* Go 1.22 on write it)
jsonChar(c) ==
    CASE c = "\"" -> "\\\""
      [] c = "\\" -> "\\\\"
      [] c = "\n" -> "\\n"
      [] c = "\r" -> "\\r"
      [] c = "\t" -> "\\t"
      [] c = "\f" -> "\\f"
      [] c = "<" -> "\\u003c"
      [] c = ">" -> "\\u003e"
      [] c = "&" -> "\\u0026"
      [] OTHER -> c
jsonString(chars) == "\"" \o Text([i \in DOMAIN chars |-> jsonChar(chars[i])]) \o "\""

\* the elements of a JSON array or the members of a JSON object, one a line
RECURSIVE jsonLines(_)
jsonLines(items) ==
    IF items = <<>> THEN ""
    ELSE IF Len(items) = 1 THEN items[1] \o "\n"
    ELSE items[1] \o ",\n" \o jsonLines(Tail(items))

\* a slice as a JSON value at indentation ind: null for the nil slice
\* convertBrandToQuickResult leaves when there is nothing to append
jsonArray(items, ind) ==
    IF items = <<>> THEN "null"
    ELSE "[\n" \o jsonLines([i \in DOMAIN items |-> ind \o "  " \o items[i]]) \o ind \o "]"

jsonObject(members, ind) ==
    "{\n" \o jsonLines([i \in DOMAIN members |-> ind \o "  " \o members[i]]) \o ind \o "}"

marshalColor(c, ind) ==
    jsonObject(<< "\"hex\": " \o jsonString(Chars(c.Hex)),
                  "\"type\": " \o jsonString(Chars(c.Type)),
                  "\"brightness\": " \o ToString(c.Brightness) >>, ind)

marshalFont(f, ind) ==
    jsonObject(<< "\"name\": " \o jsonString(Chars(f.Name)),
                  "\"type\": " \o jsonString(Chars(f.Type)) >>, ind)

\* json.MarshalIndent(result, "", "  ") of a QuickResult, standing at
\* indentation ind: the members in the order of the struct, the three
\* omitempty members left out when empty
marshalResult(result, ind) ==
    jsonObject(
        << "\"name\": " \o jsonString(Chars(result.Name)),
           "\"domain\": " \o jsonString(result.Domain) >>
        \o (IF result.LogoLight # <<>>
            THEN << "\"logo_light\": " \o jsonString(result.LogoLight) >> ELSE <<>>)
        \o (IF result.LogoDark # <<>>
            THEN << "\"logo_dark\": " \o jsonString(result.LogoDark) >> ELSE <<>>)
        \o (IF result.Favicon # <<>>
            THEN << "\"favicon\": " \o jsonString(result.Favicon) >> ELSE <<>>)
        \o << "\"colors\": "
                \o jsonArray([i \in DOMAIN result.Colors |->
                                 marshalColor(result.Colors[i], ind \o "    ")],
                             ind \o "  "),
              "\"fonts\": "
                \o jsonArray([i \in DOMAIN result.Fonts |->
                                 marshalFont(result.Fonts[i], ind \o "    ")],
                             ind \o "  ") >>,
        ind)

\* output.FormatQuick(result, format, colorize)
FormatQuick(result, format, colorize) ==
    IF format = "json" THEN marshalResult(result, "")
    ELSE result.Name \o " (" \o Text(result.Domain) \o ")\n"
         \o "\nLogos (SVG):\n"
         \o (IF result.LogoLight # <<>>
             THEN "  light: " \o Text(result.LogoLight) \o "\n" ELSE "")
         \o (IF result.LogoDark # <<>>
             THEN "  dark:  " \o Text(result.LogoDark) \o "\n" ELSE "")
         \o (IF result.LogoLight = <<>> /\ result.LogoDark = <<>>
             THEN "  (no SVG available)\n" ELSE "")
         \o (IF result.Favicon # <<>>
             THEN "\nFavicon:\n  " \o Text(result.Favicon) \o "\n" ELSE "")
         \o (IF Len(result.Colors) > 0
             THEN "\nColors:\n" \o quickColorLines(result.Colors, colorize) ELSE "")
         \o (IF Len(result.Fonts) > 0
             THEN "\nFonts:\n" \o quickFontLines(result.Fonts) ELSE "")

\* output.FormatQuickBatch(results, format, colorize)
FormatQuickBatch(rs, format, colorize) ==
    IF Len(rs) = 0 THEN ""
    ELSE IF Len(rs) = 1 THEN FormatQuick(rs[1], format, colorize)
    ELSE IF format = "json"
    THEN jsonArray([i \in DOMAIN rs |-> marshalResult(rs[i], "  ")], "")
    ELSE joinText([i \in DOMAIN rs |-> FormatQuick(rs[i], format, colorize)], "\n")

\* what runQuickCmd prints on the primary stream: Fprintln of the text of
\* the formatter the flags select, applied to the fetched brands
exportText(f, rs) ==
    (IF f.cssOutput THEN FormatQuickCSSBatch(rs)
     ELSE IF f.tailwindOutput THEN FormatQuickTailwindBatch(rs)
     ELSE FormatQuickBatch(rs, resolveOutput(f).format, resolveOutput(f).colorize)) \o "\n"

\* one observable step of a run: a call of the Brand API, a line on a
\* stream, a directory creation, a call of downloadFile, a read or a write
\* of a manifest
event(kind, target, text) == [kind |-> kind, target |-> target, text |-> text]

(***************************************************************************)
(* SpecColor: the two color emitters applied to a growing color list       *)
(***************************************************************************)
InitColor ==
    /\ colors = <<>>
    /\ colorVars = buildColorVariables(<<>>)
    /\ colorEntries = buildTailwindColors(<<>>)
    /\ fontIdle /\ batchIdle /\ manifestIdle /\ verifyIdle /\ quickIdle

ExportColors ==
    /\ Len(colors) < MaxColors
    /\ \E c \in ColorInfos :
          /\ colors' = Append(colors, c)
          /\ colorVars' = buildColorVariables(colors')
          /\ colorEntries' = buildTailwindColors(colors')
    /\ UNCHANGED <<fontState, batchState, manifestState, verifyState, quickState>>

NextColor == ExportColors

SpecColor == InitColor /\ [][NextColor]_vars

(***************************************************************************)
(* SpecFont: both font emitters applied to a growing font list             *)
(***************************************************************************)
InitFont ==
    /\ fonts = <<>>
    /\ fontVars = buildFontVariables(<<>>)
    /\ fontEntries = buildTailwindFonts(<<>>)
    /\ colorIdle /\ batchIdle /\ manifestIdle /\ verifyIdle /\ quickIdle

ExportFonts ==
    /\ Len(fonts) < MaxFonts
    /\ \E f \in FontInfos :
          /\ fonts' = Append(fonts, f)
          /\ fontVars' = buildFontVariables(fonts')
          /\ fontEntries' = buildTailwindFonts(fonts')
    /\ UNCHANGED <<colorState, batchState, manifestState, verifyState, quickState>>

NextFont == ExportFonts

SpecFont == InitFont /\ [][NextFont]_vars

(***************************************************************************)
(* SpecBatch: both batch emitters applied to a growing list of brands      *)
(***************************************************************************)
InitBatch ==
    /\ results = <<>>
    /\ cssOut = FormatQuickCSSBatch(<<>>)
    /\ tailwindOut = FormatQuickTailwindBatch(<<>>)
    /\ colorIdle /\ fontIdle /\ manifestIdle /\ verifyIdle /\ quickIdle

ExportBatch ==
    /\ Len(results) < MaxBrands
    /\ \E r \in QuickResults :
          /\ results' = Append(results, r)
          /\ cssOut' = FormatQuickCSSBatch(results')
          /\ tailwindOut' = FormatQuickTailwindBatch(results')
    /\ UNCHANGED <<colorState, fontState, manifestState, verifyState, quickState>>

NextBatch == ExportBatch

SpecBatch == InitBatch /\ [][NextBatch]_vars

(***************************************************************************)
(* SpecManifest: calls of writeSHA256Manifest on one manifest path         *)
(***************************************************************************)
\* the map a list of entries stands for, a later entry overriding an earlier
RECURSIVE entriesAsMap(_)
entriesAsMap(entries) ==
    IF entries = <<>> THEN EmptyMap
    ELSE LET front == entriesAsMap(SubSeq(entries, 1, Len(entries) - 1))
             last == entries[Len(entries)]
         IN mapPut(front, last.Path, last.Sum)

\* m1 overridden by m2
mapOverride(m1, m2) ==
    [k \in DOMAIN m1 \cup DOMAIN m2 |-> IF k \in DOMAIN m2 THEN m2[k] ELSE m1[k]]

InitManifest ==
    /\ manifestFile = NoFile
    /\ lastWrite = NoCall
    /\ merged = [tracked |-> TRUE, map |-> EmptyMap]
    /\ writers = <<>>
    /\ colorIdle /\ fontIdle /\ batchIdle /\ verifyIdle /\ quickIdle

\* another tool puts a manifest at the path
SeedManifest ==
    /\ ~manifestFile.exists
    /\ \E data \in SeedFiles :
          manifestFile' = [exists |-> TRUE, data |-> data]
    /\ lastWrite' = [NoCall EXCEPT !.kind = "seed"]
    /\ merged' = Untracked
    /\ UNCHANGED writers
    /\ UNCHANGED <<colorState, fontState, batchState, verifyState, quickState>>

WriteManifest ==
    /\ \E entries \in SeqsUpTo(ChecksumEntries, MaxEntries), appendExisting \in BOOLEAN :
          LET res == writeSHA256Manifest(manifestFile, entries, appendExisting)
          IN /\ manifestFile' = res.file
             /\ lastWrite' = [kind |-> "write", entries |-> entries,
                              append |-> appendExisting, err |-> res.err]
             /\ merged' = IF res.err THEN merged
                          ELSE IF ~appendExisting
                          THEN [tracked |-> TRUE, map |-> entriesAsMap(entries)]
                          ELSE [merged EXCEPT !.map = mapOverride(@, entriesAsMap(entries))]
    /\ UNCHANGED writers
    /\ UNCHANGED <<colorState, fontState, batchState, verifyState, quickState>>

NextManifest == SeedManifest \/ WriteManifest

SpecManifest == InitManifest /\ [][NextManifest]_vars

(***************************************************************************)
(* SpecRecord: a run records a downloaded file in a new manifest, a later  *)
(* run with the same root verifies the file against that manifest          *)
(***************************************************************************)
InitRecord ==
    /\ manifestFile = NoFile
    /\ lastWrite = NoCall
    /\ merged = Untracked
    /\ writers = <<>>
    /\ verifyCall = NoVerify
    /\ verifyErr = ""
    /\ colorIdle /\ fontIdle /\ batchIdle /\ quickIdle

\* buildChecksumEntry(path, root) and writeSHA256Manifest of the one entry
RecordEntry ==
    /\ lastWrite.kind = "none"
    /\ \E path \in RecordPaths, root \in RecordRoots, data \in RecordContents :
          LET file == [exists |-> TRUE, data |-> data]
              built == buildChecksumEntry(path, root, file)
              w == writeSHA256Manifest(manifestFile, <<built.entry>>, FALSE)
          IN /\ manifestFile' = w.file
             /\ lastWrite' = [kind |-> "write", entries |-> <<built.entry>>,
                              append |-> FALSE, err |-> w.err]
             /\ verifyCall' = [NoVerify EXCEPT !.path = path, !.root = root, !.file = file]
    /\ UNCHANGED <<merged, writers, verifyErr>>
    /\ UNCHANGED <<colorState, fontState, batchState, quickState>>

\* parseSHA256Manifest of the manifest and verifySHA256ManifestEntry of the
\* recorded file, as it was or with another content
VerifyRecorded ==
    /\ lastWrite.kind = "write"
    /\ ~verifyCall.called
    /\ \E data \in RecordContents :
          LET file == [exists |-> TRUE, data |-> data]
              parsed == parseSHA256Manifest(manifestFile)
              m == [nil |-> FALSE, map |-> parsed.entries]
          IN /\ ~parsed.err
             /\ verifyCall' = [verifyCall EXCEPT !.called = TRUE, !.manifest = m,
                                                 !.file = file]
             /\ verifyErr' = verifySHA256ManifestEntry(verifyCall.path, verifyCall.root,
                                                       m, file)
    /\ UNCHANGED manifestState
    /\ UNCHANGED <<colorState, fontState, batchState, quickState>>

NextRecord == RecordEntry \/ VerifyRecorded

SpecRecord == InitRecord /\ [][NextRecord]_vars

(***************************************************************************)
(* SpecRace: two invocations call writeSHA256Manifest(path, entries, true) *)
(* on one path.  The call reads the file (checksum.go:121-127) and later   *)
(* writes it (checksum.go:147) with nothing that keeps the other           *)
(* invocation out in between; each of the two file operations is one step. *)
(***************************************************************************)
NoWriter == [at |-> "start", view |-> NoFile, entries |-> <<>>,
             readAfter |-> FALSE, wroteAs |-> 0]

\* how many invocations have written the file
writesDone == Cardinality({q \in DOMAIN writers : writers[q].wroteAs > 0})

InitRace ==
    /\ manifestFile \in ManifestOutFiles
    /\ lastWrite = NoCall
    /\ merged = [tracked |-> TRUE, map |-> parseSHA256Manifest(manifestFile).entries]
    /\ writers \in [Writers -> {[NoWriter EXCEPT !.entries = <<e>>] : e \in RaceEntries}]
    /\ colorIdle /\ fontIdle /\ batchIdle /\ verifyIdle /\ quickIdle

\* checksum.go:116-127: the entries are not empty, the file is read
ReadExisting(p) ==
    /\ writers[p].at = "start"
    /\ Len(writers[p].entries) # 0
    /\ writers' = [writers EXCEPT ![p].at = "read",
                                  ![p].view = manifestFile,
                                  ![p].readAfter = writesDone > 0]
    /\ UNCHANGED <<manifestFile, lastWrite, merged>>
    /\ UNCHANGED <<colorState, fontState, batchState, verifyState, quickState>>

\* a lock around the call: the file is merged as it is when it is written
WriteMergedLocked(p) ==
    /\ writers[p].at = "read"
    /\ LET res == writeSHA256Manifest(manifestFile, writers[p].entries, TRUE)
       IN /\ manifestFile' = res.file
          /\ lastWrite' = [kind |-> "write", entries |-> writers[p].entries,
                           append |-> TRUE, err |-> res.err]
    /\ writers' = [writers EXCEPT ![p].at = "done", ![p].wroteAs = writesDone + 1]
    /\ UNCHANGED merged
    /\ UNCHANGED <<colorState, fontState, batchState, verifyState, quickState>>

\* checksum.go:129-147: the entries are merged into what was read and the
\* file is written
WriteMerged(p) ==
    /\ writers[p].at = "read"
    /\ LET res == writeSHA256Manifest(writers[p].view, writers[p].entries, TRUE)
       IN /\ manifestFile' = res.file
          /\ lastWrite' = [kind |-> "write", entries |-> writers[p].entries,
                           append |-> TRUE, err |-> res.err]
    /\ writers' = [writers EXCEPT ![p].at = "done", ![p].wroteAs = writesDone + 1]
    /\ UNCHANGED merged
    /\ UNCHANGED <<colorState, fontState, batchState, verifyState, quickState>>

NextRace == \E p \in Writers : ReadExisting(p) \/ WriteMerged(p)

SpecRace == InitRace /\ [][NextRace]_vars

(***************************************************************************)
(* SpecParse: parseSHA256Manifest on a manifest file                       *)
(***************************************************************************)
\* the files at the path: none, or up to MaxLines lines
ParseFiles ==
    { NoFile } \cup
    { [exists |-> TRUE, data |-> joinLines(ls)] : ls \in SeqsUpTo(ManifestLines, MaxLines) }

InitParse ==
    /\ manifestFile \in ParseFiles
    /\ lastWrite = NoCall
    /\ merged = Untracked
    /\ writers = <<>>
    /\ colorIdle /\ fontIdle /\ batchIdle /\ verifyIdle /\ quickIdle

\* parseSHA256Manifest(path): merged holds the map it returns
ParseManifest ==
    /\ lastWrite.kind = "none"
    /\ LET parsed == parseSHA256Manifest(manifestFile)
       IN /\ lastWrite' = [NoCall EXCEPT !.kind = "parse", !.err = parsed.err]
          /\ merged' = [tracked |-> TRUE, map |-> parsed.entries]
    /\ UNCHANGED <<manifestFile, writers>>
    /\ UNCHANGED <<colorState, fontState, batchState, verifyState, quickState>>

NextParse == ParseManifest

SpecParse == InitParse /\ [][NextParse]_vars

(***************************************************************************)
(* SpecVerify: a call of verifySHA256ManifestEntry                         *)
(***************************************************************************)
\* the path, the root, the manifest and the file of the call to come
InitVerify ==
    /\ \E path \in VerifyPaths, root \in VerifyRoots,
          m \in VerifyManifests, file \in VerifyFiles :
          verifyCall = [called |-> FALSE, path |-> path, root |-> root,
                        manifest |-> m, file |-> file]
    /\ verifyErr = ""
    /\ colorIdle /\ fontIdle /\ batchIdle /\ manifestIdle /\ quickIdle

VerifyEntry ==
    /\ ~verifyCall.called
    /\ verifyCall' = [verifyCall EXCEPT !.called = TRUE]
    /\ verifyErr' = verifySHA256ManifestEntry(verifyCall.path, verifyCall.root,
                                              verifyCall.manifest, verifyCall.file)
    /\ UNCHANGED <<colorState, fontState, batchState, manifestState, quickState>>

NextVerify == VerifyEntry

SpecVerify == InitVerify /\ [][NextVerify]_vars

(***************************************************************************)
(* SpecQuick, SpecQuickFlags: one run of runQuickCmd, statement by         *)
(* statement.  results is the []*QuickResult the run collects.             *)
(***************************************************************************)
\* what a run of the quick command leaves alone
quickFrame == <<colorState, fontState, cssOut, tailwindOut, manifestState, verifyState>>

\* runQuickCmd has returned
done == [at |-> "done", i |-> 0, j |-> 0]

\* a slip in the batch: the manifest is written after each brand
afterBrandWritesAtOnce(i) == [at |-> "write", i |-> 0, j |-> 0]

\* the position after brand i of results: the next brand, or the manifest
\* to write
afterBrand(i) ==
    IF i < Len(results) THEN [at |-> "mkdir", i |-> i + 1, j |-> 0]
    ELSE [at |-> "write", i |-> 0, j |-> 0]

\* the position after slot j of brand i
afterAsset(i, j) ==
    IF j < Len(downloads(results[i])) THEN [at |-> "asset", i |-> i, j |-> j + 1]
    ELSE afterBrand(i)

\* fetchErrors of runQuickCmd, read off the calls of the Brand API
fetchErrors ==
    LET failed == SelectSeq(events, LAMBDA e : e.kind = "GetBrand" /\ e.text # "ok")
    IN [i \in DOMAIN failed |-> Text(failed[i].target) \o ": " \o failed[i].text]

\* quick.go:112-121, the checks on the output flags
CheckExclusiveFlags ==
    /\ pc.at = "validate"
    /\ LET err == IF flags.cssOutput /\ flags.outputFormat = FormatJSONName
                  THEN "--css and --output json are mutually exclusive"
                  ELSE IF flags.tailwindOutput /\ flags.outputFormat = FormatJSONName
                  THEN "--tailwind and --output json are mutually exclusive"
                  ELSE IF flags.tailwindOutput /\ flags.cssOutput
                  THEN "--tailwind and --css are mutually exclusive"
                  ELSE ""
       IN IF err # ""
          THEN pc' = done /\ ret' = err
          ELSE pc' = [at |-> "fetch", i |-> 1, j |-> 0] /\ ret' = ret
    /\ UNCHANGED <<flags, args, results, events, disk, manifest, manifestEntries>>
    /\ UNCHANGED quickFrame

\* a slip in the loop over args: the first error ends the loop
GetBrandStopsAtError ==
    /\ pc.at = "fetch"
    /\ \E ok \in BOOLEAN :
          LET domain == args[pc.i]
          IN IF ok
             THEN /\ results' = Append(results, BrandAPI[domain])
                  /\ events' = Append(events, event("GetBrand", domain, "ok"))
                  /\ pc' = IF pc.i < Len(args) THEN [pc EXCEPT !.i = @ + 1]
                           ELSE [at |-> "export", i |-> 0, j |-> 0]
             ELSE /\ results' = results
                  /\ events' = events \o
                        << event("GetBrand", domain, "domain not found"),
                           event("stderr", <<>>,
                                 "Error fetching " \o Text(domain) \o ": domain not found\n") >>
                  /\ pc' = [at |-> "export", i |-> 0, j |-> 0]
    /\ UNCHANGED <<flags, args, disk, manifest, manifestEntries, ret>>
    /\ UNCHANGED quickFrame

\* quick.go:127-135, one turn of the loop over args
GetBrand ==
    /\ pc.at = "fetch"
    /\ \E ok \in BOOLEAN :
          LET domain == args[pc.i]
          IN IF ok
             THEN /\ results' = Append(results, BrandAPI[domain])
                  /\ events' = Append(events, event("GetBrand", domain, "ok"))
             ELSE /\ results' = results
                  /\ events' = events \o
                        << event("GetBrand", domain, "domain not found"),
                           event("stderr", <<>>,
                                 "Error fetching " \o Text(domain) \o ": domain not found\n") >>
    /\ pc' = IF pc.i < Len(args) THEN [pc EXCEPT !.i = @ + 1]
             ELSE [at |-> "export", i |-> 0, j |-> 0]
    /\ UNCHANGED <<flags, args, disk, manifest, manifestEntries, ret>>
    /\ UNCHANGED quickFrame

\* quick.go:138-154, no brand fetched, or no such output format, or the
\* export on the primary stream
PrintExport ==
    /\ pc.at = "export"
    /\ IF Len(results) = 0
       THEN /\ ret' = "failed to fetch all domains: " \o joinText(fetchErrors, "; ")
            /\ pc' = done
            /\ events' = events
       ELSE IF resolveOutput(flags).err # ""
       THEN /\ ret' = resolveOutput(flags).err
            /\ pc' = done
            /\ events' = events
       ELSE /\ events' = Append(events, event("stdout", <<>>, exportText(flags, results)))
            /\ pc' = [at |-> "manifest", i |-> 0, j |-> 0]
            /\ ret' = ret
    /\ UNCHANGED <<flags, args, results, disk, manifest, manifestEntries>>
    /\ UNCHANGED quickFrame

\* quick.go:157-166 and 175-181, the manifest to verify against is read, or
\* the checksum flags are refused without a download directory
LoadManifest ==
    /\ pc.at = "manifest"
    /\ IF flags.downloadDir # <<>>
       THEN IF flags.quickSHA256Manifest # <<>>
            THEN \E outcome \in ReadFileOutcomes(disk.manifestIn) :
                 LET parsed == parseSHA256Manifest(asRead(disk.manifestIn, outcome))
                 IN /\ events' = Append(events,
                                        event("ReadFile", flags.quickSHA256Manifest, outcome))
                    /\ IF parsed.err
                       THEN /\ ret' = "failed to read manifest"
                            /\ pc' = done
                            /\ manifest' = manifest
                       ELSE /\ manifest' = [nil |-> FALSE, map |-> parsed.entries]
                            /\ pc' = [at |-> "mkdir", i |-> 1, j |-> 0]
                            /\ ret' = ret
            ELSE /\ pc' = [at |-> "mkdir", i |-> 1, j |-> 0]
                 /\ UNCHANGED <<manifest, ret, events>>
       ELSE /\ ret' = IF flags.quickSHA256Manifest # <<>>
                      THEN "--sha256-manifest requires --download"
                      ELSE IF flags.quickSHA256ManifestOut # <<>>
                      THEN "--sha256-manifest-out requires --download"
                      ELSE IF flags.quickSHA256ManifestAppend
                      THEN "--sha256-manifest-append requires --sha256-manifest-out"
                      ELSE "nil"
            /\ pc' = done
            /\ UNCHANGED <<manifest, events>>
    /\ UNCHANGED <<flags, args, results, disk, manifestEntries>>
    /\ UNCHANGED quickFrame

\* os.Stat(path) finds a directory when dirs were made: the path is followed
\* as given, element by element, and every directory it passes through has
\* to exist; the working directory, the root and what is above the working
\* directory exist
statDir(path, dirs) ==
    /\ path # <<>>
    /\ \A n \in DOMAIN path :
          (path[n] # "/" /\ (n = Len(path) \/ path[n + 1] = "/")) =>
              LET c == Clean(SubSeq(path, 1, n))
              IN c \in dirs \/ c \in {<<".">>, <<"/">>} \/ Base(c) = <<".", ".">>

\* what a call of os.MkdirAll(path) ends in when dirs exist, made the
\* directories it has created: nil at once when the path is a directory;
\* otherwise the path without its last element is created first, its error
\* returned, and os.Mkdir(path) follows, whose error is returned unless the
\* path is a directory by then.  The path is not cleaned: a/../b makes a
\* before b
RECURSIVE MkdirAllOutcomes(_, _)
MkdirAllOutcomes(path, dirs) ==
    IF statDir(path, dirs) THEN {[ok |-> TRUE, made |-> {}]}
    ELSE IF path = <<>> THEN {[ok |-> FALSE, made |-> {}]}
    ELSE LET last == CHOOSE n \in DOMAIN path :
                        path[n] # "/" /\ \A m \in DOMAIN path : m > n => path[m] = "/"
             seps == {m \in 1..last : path[m] = "/"}
             parent == IF seps = {} THEN <<>>
                       ELSE SubSeq(path, 1, CHOOSE m \in seps : \A k \in seps : k <= m)
         IN UNION { IF ~above.ok \/ statDir(path, dirs \cup above.made) THEN {above}
                    ELSE { [ok |-> FALSE, made |-> above.made],
                           [ok |-> TRUE, made |-> above.made \cup {Clean(path)}] } :
                    above \in (IF parent = <<>> THEN {[ok |-> TRUE, made |-> {}]}
                               ELSE MkdirAllOutcomes(parent, dirs)) }

\* a slip in downloadAssetsToDir: the error of os.MkdirAll is reported and
\* the batch goes on with the next brand
MkdirAllNotFatal ==
    /\ pc.at = "mkdir"
    /\ LET result == results[pc.i]
           dir == targetDir(flags.downloadDir, results, result)
       IN \E out \in MkdirAllOutcomes(dir, disk.dirs) :
             IF out.ok
             THEN /\ events' = Append(events, event("MkdirAll", dir, "ok"))
                  /\ disk' = [disk EXCEPT !.dirs = @ \cup out.made]
                  /\ pc' = IF downloads(result) # <<>>
                           THEN [at |-> "asset", i |-> pc.i, j |-> 1]
                           ELSE afterBrand(pc.i)
             ELSE /\ events' = events \o
                        << event("MkdirAll", dir, "permission denied"),
                           event("stderr", <<>>,
                                 "Error: failed to create directory " \o Text(dir)
                                 \o ": permission denied\n") >>
                  /\ disk' = [disk EXCEPT !.dirs = @ \cup out.made]
                  /\ pc' = afterBrand(pc.i)
    /\ UNCHANGED <<flags, args, results, manifest, manifestEntries, ret>>
    /\ UNCHANGED quickFrame

\* quick.go:188-223, the target directory of brand pc.i is chosen and created
MkdirAll ==
    /\ pc.at = "mkdir"
    /\ LET result == results[pc.i]
           dir == targetDir(flags.downloadDir, results, result)
       IN \E out \in MkdirAllOutcomes(dir, disk.dirs) :
             IF out.ok
             THEN /\ events' = Append(events, event("MkdirAll", dir, "ok"))
                  /\ disk' = [disk EXCEPT !.dirs = @ \cup out.made]
                  /\ pc' = IF downloads(result) # <<>>
                           THEN [at |-> "asset", i |-> pc.i, j |-> 1]
                           ELSE afterBrand(pc.i)
                  /\ ret' = ret
             ELSE /\ events' = events \o
                        << event("MkdirAll", dir, "permission denied"),
                           event("stderr", <<>>,
                                 "Error: failed to create directory " \o Text(dir)
                                 \o ": permission denied\n") >>
                  /\ disk' = [disk EXCEPT !.dirs = @ \cup out.made]
                  /\ pc' = done
                  /\ ret' = "permission denied"
    /\ UNCHANGED <<flags, args, results, manifest, manifestEntries>>
    /\ UNCHANGED quickFrame

\* quick.go:284-291, writeSHA256File: the line of the sidecar of the file at
\* destPath whose digest is sum
sidecarLine(sum, destPath) == sum \o <<" ", " ">> \o Base(destPath) \o <<"\n">>

\* a slip in downloadAssetsToDir: the entry is recorded before the file is
\* verified, so the asset that fails strict verification is recorded too
assetSavedStrictRecords(d, destPath, file, written, verr, built, next) ==
    LET strict == verr # "" /\ flags.quickSHA256ManifestVerify
    IN /\ events' = events \o
             << event("Get", d.url, "200"),
                event("stderr", <<>>, "Downloaded: " \o Text(destPath) \o "\n") >>
             \o (IF written \notin {"ok", "none"}
                 THEN << event("stderr", <<>>,
                               "Error: failed to write checksum for "
                               \o Text(d.filename) \o ": " \o written \o "\n") >>
                 ELSE <<>>)
             \o (IF verr # ""
                 THEN << event("stderr", <<>>,
                               "Error: checksum verification failed for "
                               \o Text(d.filename) \o ": " \o verr \o "\n") >>
                 ELSE <<>>)
             \o (IF ~strict /\ built.err # ""
                 THEN << event("stderr", <<>>,
                               "Error: failed to compute checksum for "
                               \o Text(d.filename) \o ": " \o built.err \o "\n") >>
                 ELSE <<>>)
       /\ disk' = [disk EXCEPT
                     !.assets = mapPut(@, destPath, file.data),
                     !.sidecars = IF written = "ok"
                                  THEN mapPut(@, destPath \o <<".", "s", "h", "a", "2", "5", "6">>,
                                              sidecarLine(computeSHA256(file).sum, destPath))
                                  ELSE @]
       /\ manifestEntries' = IF built.err = ""
                             THEN Append(manifestEntries, built.entry)
                             ELSE manifestEntries
       /\ pc' = IF strict THEN done ELSE next
       /\ ret' = IF strict THEN verr ELSE ret

\* quick.go:259-278, the turn of the loop for the download d once downloadFile
\* has saved file at destPath: the sidecar is written, which ended as
\* written says, the file is verified, with the error verr, and unless a
\* strict verification ends the run its entry built is recorded and the loop
\* goes on at next
assetSaved(d, destPath, file, written, verr, built, next) ==
    LET strict == verr # "" /\ flags.quickSHA256ManifestVerify
    IN /\ events' = events \o
             << event("Get", d.url, "200"),
                event("stderr", <<>>, "Downloaded: " \o Text(destPath) \o "\n") >>
             \o (IF written \notin {"ok", "none"}
                 THEN << event("stderr", <<>>,
                               "Error: failed to write checksum for "
                               \o Text(d.filename) \o ": " \o written \o "\n") >>
                 ELSE <<>>)
             \o (IF verr # ""
                 THEN << event("stderr", <<>>,
                               "Error: checksum verification failed for "
                               \o Text(d.filename) \o ": " \o verr \o "\n") >>
                 ELSE <<>>)
             \o (IF ~strict /\ built.err # ""
                 THEN << event("stderr", <<>>,
                               "Error: failed to compute checksum for "
                               \o Text(d.filename) \o ": " \o built.err \o "\n") >>
                 ELSE <<>>)
       /\ disk' = [disk EXCEPT
                     !.assets = mapPut(@, destPath, file.data),
                     !.sidecars = IF written = "ok"
                                  THEN mapPut(@, destPath \o <<".", "s", "h", "a", "2", "5", "6">>,
                                              sidecarLine(computeSHA256(file).sum, destPath))
                                  ELSE @]
       /\ manifestEntries' = IF ~strict /\ built.err = ""
                             THEN Append(manifestEntries, built.entry)
                             ELSE manifestEntries
       /\ pc' = IF strict THEN done ELSE next
       /\ ret' = IF strict THEN verr ELSE ret

\* quick.go:294-324 and 254-257, downloadFile for the download d to destPath,
\* the server holding body: the request fails, or os.Create fails, or io.Copy
\* fails and leaves a part of body in the file, the loop then reporting the
\* failure and going on at next; or the file is saved, and each of the
\* turn's later calls of computeSHA256 opens it or fails to
downloadFile(d, destPath, body, next) ==
    \E outcome \in FetchOutcomes(d.url) :
       IF outcome # "200"
       THEN /\ events' = events \o
                  << event("Get", d.url, outcome),
                     event("stderr", <<>>,
                           "Error: failed to download " \o Text(d.filename) \o ": "
                           \o downloadError(outcome) \o "\n") >>
            /\ IF outcome = "copy"
               THEN \E n \in 0..(Len(body) - 1) :
                       disk' = [disk EXCEPT
                                  !.assets = mapPut(@, destPath, SubSeq(body, 1, n))]
               ELSE disk' = disk
            /\ pc' = next
            /\ UNCHANGED <<manifestEntries, ret>>
       ELSE \E written \in (IF flags.quickSHA256 THEN SidecarOutcomes(d.url) ELSE {"none"}),
               verified \in OpenOutcomes(d.url), built \in OpenOutcomes(d.url) :
               assetSaved(d, destPath, [exists |-> TRUE, data |-> body], written,
                          verifySHA256ManifestEntry(destPath, flags.downloadDir, manifest,
                                                    [exists |-> verified, data |-> body]),
                          buildChecksumEntry(destPath, flags.downloadDir,
                                             [exists |-> built, data |-> body]),
                          next)

\* quick.go:252-279, one turn of the loop over downloads, for the download d
\* into the directory dir
downloadAssetTo(dir, d, next) == downloadFile(d, Join(dir, d.filename), Served(d.url), next)
DownloadAsset ==
    /\ pc.at = "asset"
    /\ downloadAssetTo(targetDir(flags.downloadDir, results, results[pc.i]),
                       downloads(results[pc.i])[pc.j], afterAsset(pc.i, pc.j))
    /\ UNCHANGED <<flags, args, results, manifest>>
    /\ UNCHANGED quickFrame

\* quick.go:170-174 and 183, the manifest of the run is written and
\* runQuickCmd returns: writeSHA256Manifest, unless it refuses the entries,
\* reads the file at the path when it appends to it, and writes it
WriteManifestOut ==
    /\ pc.at = "write"
    /\ IF flags.quickSHA256ManifestOut # <<>>
       THEN \E r \in (IF flags.quickSHA256ManifestAppend
                      THEN ReadFileOutcomes(disk.manifestOut) ELSE {"none"}),
               wr \in WriteFileOutcomes :
            LET w == writeSHA256Manifest(asRead(disk.manifestOut, r), manifestEntries,
                                         flags.quickSHA256ManifestAppend)
            IN IF w.err
               THEN /\ ret' = "no downloaded files to write"
                    /\ UNCHANGED <<disk, events>>
               ELSE /\ events' = events
                           \o (IF r # "none"
                               THEN << event("ReadFile", flags.quickSHA256ManifestOut, r) >>
                               ELSE <<>>)
                           \o << event("WriteFile", flags.quickSHA256ManifestOut, wr) >>
                    /\ disk' = IF wr = "ok" THEN [disk EXCEPT !.manifestOut = w.file]
                               ELSE disk
                    /\ ret' = IF wr = "ok" THEN "nil" ELSE wr
       ELSE /\ ret' = "nil"
            /\ UNCHANGED <<disk, events>>
    /\ pc' = done
    /\ UNCHANGED <<flags, args, results, manifest, manifestEntries>>
    /\ UNCHANGED quickFrame

NextQuick ==
    \/ CheckExclusiveFlags
    \/ GetBrand
    \/ PrintExport
    \/ LoadManifest
    \/ MkdirAll
    \/ DownloadAsset
    \/ WriteManifestOut

\* the files at the two manifest paths when the run starts
StartDisks(f) ==
    { [NoDisk EXCEPT !.manifestIn = fin, !.manifestOut = fout] :
        fin \in (IF f.quickSHA256Manifest = <<>> THEN {NoFile} ELSE ManifestInFiles),
        fout \in (IF f.quickSHA256ManifestOut = <<>> THEN {NoFile} ELSE ManifestOutFiles) }

\* the state runQuickCmd is entered in with flags f and arguments a
QuickStart(f, a, d) ==
    /\ flags = f /\ args = a /\ disk = d
    /\ pc = [at |-> "validate", i |-> 0, j |-> 0]
    /\ events = <<>>
    /\ manifest = NilManifest
    /\ manifestEntries = <<>>
    /\ ret = "running"
    /\ colorIdle /\ fontIdle /\ batchIdle /\ manifestIdle /\ verifyIdle

\* the values of --download: not given, a directory, the working directory,
\* and the directory of the help text, which is not clean
AssetsDir == <<".", "/", "a", "s", "s", "e", "t", "s", "/">>
AsideDir == <<"a", "/", ".", ".", "/", "b">>
DownloadRoots == {<<>>, OutDir, <<".">>, AssetsDir, AsideDir}

\* text output, every combination of the download and checksum flags, up to
\* MaxArgs distinct identifiers
DownloadFlags ==
    [cssOutput : {FALSE}, tailwindOutput : {FALSE}, outputFormat : {FormatTextName},
     downloadDir : DownloadRoots, quickSHA256 : BOOLEAN,
     quickSHA256Manifest : {<<>>, ManifestInPath},
     quickSHA256ManifestOut : {<<>>, ManifestOutPath},
     quickSHA256ManifestAppend : BOOLEAN, quickSHA256ManifestVerify : BOOLEAN]

InitQuick ==
    \E f \in DownloadFlags, a \in DistinctSeqs(Identifiers, MaxArgs) :
        \E d \in StartDisks(f) : QuickStart(f, a, d)

SpecQuick == InitQuick /\ [][NextQuick]_vars

\* every combination of all flags, on one identifier and on two
AllFlags ==
    [cssOutput : BOOLEAN, tailwindOutput : BOOLEAN, outputFormat : OutputFormats,
     downloadDir : DownloadRoots, quickSHA256 : BOOLEAN,
     quickSHA256Manifest : {<<>>, ManifestInPath},
     quickSHA256ManifestOut : {<<>>, ManifestOutPath},
     quickSHA256ManifestAppend : BOOLEAN, quickSHA256ManifestVerify : BOOLEAN]

FlagArgs == { <<StripeIO>>, <<AcmeID, StripeIO>> }

InitQuickFlags ==
    \E f \in AllFlags, a \in FlagArgs :
        \E d \in StartDisks(f) : QuickStart(f, a, d)

SpecQuickFlags == InitQuickFlags /\ [][NextQuick]_vars

(***************************************************************************)
(* C1: one variable per color in input order; a type occurring once is     *)
(* named --color-T, a type occurring k>1 times is named --color-T-1 ..     *)
(* --color-T-k in arrival order, independently of the other types.         *)
(***************************************************************************)
occurrences(cs, t) == {i \in DOMAIN cs : cs[i].Type = t}
arrivalRank(cs, i) == Cardinality({j \in 1..i : cs[j].Type = cs[i].Type})

C1_ColorNaming ==
    /\ Len(colorVars) = Len(colors)
    /\ \A i \in DOMAIN colors :
          /\ colorVars[i].value = colors[i].Hex
          /\ Cardinality(occurrences(colors, colors[i].Type)) = 1
                => colorVars[i].name = "--color-" \o colors[i].Type
          /\ Cardinality(occurrences(colors, colors[i].Type)) > 1
                => colorVars[i].name =
                     "--color-" \o colors[i].Type \o "-" \o ToString(arrivalRank(colors, i))

C1_Witness ==
    /\ Len(colorVars) = 4
    /\ Cardinality(occurrences(colors, "accent")) = 3
    /\ Cardinality(occurrences(colors, "light")) = 1
    /\ colorVars[4].name = "--color-accent-3"

(***************************************************************************)
(* C2: two colors of different semantic types never receive the same       *)
(* variable name within one export call.                                   *)
(***************************************************************************)
C2_NoCrossTypeCollision ==
    \A i, j \in DOMAIN colorVars :
        colors[i].Type # colors[j].Type => colorVars[i].name # colorVars[j].name

(***************************************************************************)
(* C3: appending a font that is already in the list (same name and same    *)
(* type) changes neither the set of flat variables (name and value) nor    *)
(* the set of nested entries (key and value).                              *)
(***************************************************************************)
C3_FontDedupIdempotent ==
    [][(\E f \in Range(fonts) : fonts' = Append(fonts, f))
          => /\ Range(fontVars') = Range(fontVars)
             /\ Range(fontEntries') = Range(fontEntries)]_vars

(***************************************************************************)
(* C4: font names are allocated on the de-duplicated sequence: a type with *)
(* one remaining font is unsuffixed (--font-T, key T), a type with m>1     *)
(* remaining fonts gets the indices 1..m in arrival order (--font-T-N,     *)
(* key TN).                                                                *)
(***************************************************************************)
RECURSIVE dedupFonts(_)
dedupFonts(fs) ==
    IF fs = <<>> THEN <<>>
    ELSE LET front == dedupFonts(SubSeq(fs, 1, Len(fs) - 1))
             last == fs[Len(fs)]
         IN IF last \in Range(front) THEN front ELSE Append(front, last)

C4_FontNamingOnDeduplicated ==
    LET d == dedupFonts(fonts)
        suffix(i, sep) ==
            IF Cardinality(occurrences(d, d[i].Type)) > 1
            THEN sep \o ToString(arrivalRank(d, i))
            ELSE ""
    IN /\ Len(fontVars) = Len(d)
       /\ Len(fontEntries) = Len(d)
       /\ \A i \in DOMAIN d :
             /\ fontVars[i] = [name |-> "--font-" \o d[i].Type \o suffix(i, "-"),
                               value |-> "'" \o d[i].Name \o "', sans-serif"]
             /\ fontEntries[i] = "    " \o d[i].Type \o suffix(i, "")
                                   \o ": ['\"" \o d[i].Name \o "\"', 'sans-serif'],\n"

(***************************************************************************)
(* C5: in a flat batch export of two or more entities, each entity is one  *)
(* comment line followed by the variables of its own single-entity export, *)
(* in the same order and with the same values, each name with the          *)
(* entity's sanitized domain token inserted after the leading "--"; the    *)
(* numbering therefore depends on the entity's own colors and fonts only.  *)
(***************************************************************************)
\* the texts that can follow "--" in a single-entity variable name
singleNameRests ==
    LET types == UNION {{r.Colors[i].Type : i \in DOMAIN r.Colors}
                          \cup {r.Fonts[i].Type : i \in DOMAIN r.Fonts} : r \in Range(results)}
        base == {k \o "-" \o t : k \in {"color", "font"}, t \in types}
        longest == 1 + Cardinality(UNION {DOMAIN r.Colors \cup DOMAIN r.Fonts : r \in Range(results)})
    IN base \cup {b \o "-" \o ToString(n) : b \in base, n \in 1..longest}

namespaced(vs, token) ==
    [i \in DOMAIN vs |->
        [name |-> "--" \o token \o "-"
                    \o (CHOOSE rest \in singleNameRests : vs[i].name = "--" \o rest),
         value |-> vs[i].value]]

RECURSIVE namespacedBrands(_)
namespacedBrands(i) ==
    IF i > Len(results) THEN ""
    ELSE LET r == results[i]
             token == Text(sanitizeCSSName(r.Domain))
         IN (IF i > 1 THEN "\n" ELSE "")
            \o "  /* " \o r.Name \o " */\n"
            \o cssLines(namespaced(buildColorVariables(r.Colors), token))
            \o cssLines(namespaced(buildFontVariables(r.Fonts), token))
            \o namespacedBrands(i + 1)

C5_BatchNamespacing ==
    Len(results) >= 2 => cssOut = ":root {\n" \o namespacedBrands(1) \o "}"

C5_Witness ==
    /\ Len(results) = 2
    /\ results[1].Name = "Stripe" /\ Len(results[1].Colors) = 3 /\ Len(results[1].Fonts) = 2
    /\ results[2].Name = "GitHub" /\ Len(results[2].Colors) = 1 /\ results[2].Fonts = <<>>
    /\ results[2].Colors[1].Type = "accent"
    /\ cssOut = ":root {\n"
                \o "  /* Stripe */\n"
                \o "  --stripe-color-accent-1: #635BFF;\n"
                \o "  --stripe-color-dark: #24292f;\n"
                \o "  --stripe-color-accent-2: #FF0000;\n"
                \o "  --stripe-font-body-1: 'Inter', sans-serif;\n"
                \o "  --stripe-font-body-2: 'Roboto', sans-serif;\n"
                \o "\n"
                \o "  /* GitHub */\n"
                \o "  --github-color-accent: #635BFF;\n"
                \o "}"

(***************************************************************************)
(* C6: a batch of exactly one entity is the single-entity export of that   *)
(* entity, byte for byte, in the flat and in the nested format; a batch of *)
(* zero entities is the fixed empty block.                                 *)
(***************************************************************************)
C6_BatchDegenerates ==
    /\ Len(results) = 0
          => cssOut = ":root {\n}" /\ tailwindOut = "module.exports = {\n}"
    /\ Len(results) = 1
          => /\ cssOut = FormatQuickCSS(results[1])
             /\ tailwindOut = FormatQuickTailwind(results[1])

C6_Witness ==
    /\ Len(results) = 1
    /\ results[1].Name = "Stripe" /\ Len(results[1].Colors) = 1 /\ Len(results[1].Fonts) = 1
    /\ cssOut = ":root {\n"
                \o "  /* Colors */\n"
                \o "  --color-accent: #635BFF;\n"
                \o "\n"
                \o "  /* Fonts */\n"
                \o "  --font-body: 'Inter', sans-serif;\n"
                \o "}"
    /\ tailwindOut = "// Tailwind CSS config for Stripe\n"
                     \o "// Add to your tailwind.config.js theme.extend\n"
                     \o "module.exports = {\n"
                     \o "  colors: {\n"
                     \o "    accent: '#635BFF',\n"
                     \o "  },\n"
                     \o "  fontFamily: {\n"
                     \o "    body: ['\"Inter\"', 'sans-serif'],\n"
                     \o "  },\n"
                     \o "}"

(***************************************************************************)
(* C7: after writeManifest(path, entries, append=false) with a non-empty   *)
(* entry list of unique relative paths, parseManifest(path) returns        *)
(* exactly the input entries as a map.                                     *)
(***************************************************************************)
uniquePaths(entries) ==
    \A i, j \in DOMAIN entries : i # j => entries[i].Path # entries[j].Path

C7_ManifestRoundTrip ==
    (/\ lastWrite.kind = "write" /\ ~lastWrite.append
     /\ lastWrite.entries # <<>> /\ uniquePaths(lastWrite.entries))
        => /\ ~lastWrite.err
           /\ parseSHA256Manifest(manifestFile) =
                 [err |-> FALSE, entries |-> entriesAsMap(lastWrite.entries)]

(***************************************************************************)
(* C8: after a write without append followed by any sequence of appends    *)
(* (or appends to an absent file), the manifest holds every key of every   *)
(* write with the digest of the last write that mentioned it, and          *)
(* repeating the same append leaves the manifest unchanged.                *)
(***************************************************************************)
C8_AppendIsRightBiasedMerge ==
    /\ [](merged.tracked /\ lastWrite.kind = "write"
             => parseSHA256Manifest(manifestFile).entries = merged.map)
    /\ [][(/\ lastWrite.kind = "write" /\ lastWrite.append /\ ~lastWrite.err
           /\ lastWrite' = lastWrite)
             => manifestFile' = manifestFile]_manifestState

(***************************************************************************)
(* C9: after every successful writeManifest the lines of the manifest file *)
(* are in strictly ascending order of relative path, so there is exactly   *)
(* one line per key.                                                       *)
(***************************************************************************)
\* the lines of a text in which every line ends with a newline
writtenLines(data) ==
    LET parts == Split(data, "\n") IN SubSeq(parts, 1, Len(parts) - 1)

\* the relative path of a line "<hex>  <path>": what follows the first two spaces
linePath(line) ==
    LET k == CHOOSE i \in 1..(Len(line) - 1) :
                 /\ line[i] = " " /\ line[i + 1] = " "
                 /\ \A j \in 1..(i - 1) : ~(line[j] = " " /\ line[j + 1] = " ")
    IN SubSeq(line, k + 2, Len(line))

C9_ManifestSorted ==
    (lastWrite.kind = "write" /\ ~lastWrite.err)
        => LET data == manifestFile.data
               lines == writtenLines(data)
           IN /\ manifestFile.exists
              /\ data # <<>> => data[Len(data)] = "\n"
              /\ \A i \in 1..(Len(lines) - 1) :
                    StringLess(linePath(lines[i]), linePath(lines[i + 1]))

C9_Witness ==
    /\ lastWrite.kind = "write" /\ lastWrite.append /\ ~lastWrite.err
    /\ Len(lastWrite.entries) = 2
    /\ lastWrite.entries[1].Path = <<"b", " ", "b", "/", "a">>
    /\ lastWrite.entries[2].Path = <<"a">>
    /\ manifestFile.data =
          <<"1", " ", " ", "a", "\n",
            "9", " ", " ", "b", "\n",
            "2", " ", " ", "b", " ", "b", "/", "a", "\n">>

(***************************************************************************)
(* C10: (as stated) writeManifest rejects an empty entry list exactly when *)
(* append is false: without append it fails and leaves the file untouched, *)
(* with append it does not fail and the manifest keeps its entries.        *)
(***************************************************************************)
C10_EmptyRejectedOnlyWithoutAppend ==
    [][(lastWrite'.kind = "write" /\ lastWrite'.entries = <<>>)
          => /\ lastWrite'.err <=> ~lastWrite'.append
             /\ manifestFile' = manifestFile]_manifestState

(***************************************************************************)
(* C10 (amended): writeManifest rejects an empty entry list whether or not *)
(* append is set: it fails and leaves the file at path untouched.          *)
(***************************************************************************)
C10_EmptyAlwaysRejected ==
    [][(lastWrite'.kind = "write" /\ lastWrite'.entries = <<>>)
          => /\ lastWrite'.err
             /\ manifestFile' = manifestFile]_manifestState

C10_Witness ==
    /\ lastWrite.kind = "write" /\ lastWrite.entries = <<>>
    /\ lastWrite.append /\ lastWrite.err
    /\ manifestFile.exists /\ manifestFile.data # <<>>

(***************************************************************************)
(* C11: on a manifest that is not nil, verifySHA256ManifestEntry fails     *)
(* with "no manifest entry" when neither the path relative to the root nor *)
(* the base name is a key; fails with another error, "expected <hex>",     *)
(* when a key is found and the digest of the file differs; and returns nil *)
(* exactly when a key is found and the digests are equal ignoring case.    *)
(***************************************************************************)
\* the elements of a clean path, none for "."
elemsOf(clean) ==
    IF clean = <<".">> THEN <<>> ELSE SelectSeq(Split(clean, "/"), LAMBDA e : e # <<>>)

\* how many leading elements a and b share
sharedLen(a, b) ==
    Cardinality({n \in DOMAIN a \cap DOMAIN b : \A i \in 1..n : a[i] = b[i]})

\* the path that names the file at path from the directory root, by their
\* elements: up from root to the last directory both are below, then down
\* to path; "." when they are the same; none when one of the two starts at
\* the file system root and the other does not, or when the way up from
\* root leads through a directory root names by ".."
relativeFrom(r, p, n) ==
    IF \E i \in (n + 1)..Len(r) : r[i] = <<".", ".">> THEN {}
    ELSE IF Len(r) = n /\ Len(p) = n THEN { <<".">> }
    ELSE { joinSlash([i \in 1..(Len(r) - n) |-> <<".", ".">>] \o SubSeq(p, n + 1, Len(p))) }
relativeTo(root, path) ==
    IF (Clean(root)[1] = "/") # (Clean(path)[1] = "/") THEN {}
    ELSE relativeFrom(elemsOf(Clean(root)), elemsOf(Clean(path)),
                      sharedLen(elemsOf(Clean(root)), elemsOf(Clean(path))))

C11_ThreeOutcomes ==
    (verifyCall.called /\ ~verifyCall.manifest.nil) =>
        LET path == verifyCall.path
            root == verifyCall.root
            map == verifyCall.manifest.map
            file == verifyCall.file
            relKeys == IF root = <<>> THEN {}
                       ELSE relativeTo(root, path) \ {<<".">>}
            relHit == relKeys \cap DOMAIN map
            found == relHit # {} \/ Base(path) \in DOMAIN map
            expected == IF relHit # {} THEN map[CHOOSE k \in relHit : TRUE]
                        ELSE map[Base(path)]
            same == /\ file.exists
                    /\ Len(expected) = Len(SHA256Hex(file.data))
                    /\ \A i \in DOMAIN expected :
                          ToLower(expected[i]) = ToLower(SHA256Hex(file.data)[i])
            noEntry == "no manifest entry for " \o Text(Base(path))
        IN /\ ~found => verifyErr = noEntry
           /\ (found /\ file.exists /\ ~same) =>
                 /\ verifyErr = "expected " \o Text(expected)
                 /\ verifyErr \notin {"", noEntry}
           /\ (verifyErr = "") <=> (found /\ same)

\* the file below the brand directory is found under its path relative to
\* the root ./out/, whose digest is the file's in upper case, although the
\* base name is a key with another digest
C11_Witness ==
    /\ verifyCall.called
    /\ verifyCall.root = UncleanOutDir
    /\ verifyCall.path = OutDir \o <<"/">> \o StripeDir \o <<"/">> \o LogoLightSVG
    /\ ~verifyCall.manifest.nil
    /\ DOMAIN verifyCall.manifest.map = {LogoLightSVG, StripeDir \o <<"/">> \o LogoLightSVG}
    /\ verifyCall.manifest.map[StripeDir \o <<"/">> \o LogoLightSVG] = <<"A", "B">>
    /\ verifyCall.manifest.map[LogoLightSVG] = <<"c", "d">>
    /\ verifyCall.file = [exists |-> TRUE, data |-> <<"A">>]
    /\ verifyErr = ""

(***************************************************************************)
(* C12: a failed asset fetch never stops the batch.  Without strict        *)
(* verification and with every directory created, the requests to the      *)
(* asset server are, in this order and once each, the slots with a URL of  *)
(* every fetched brand: brands in result order, slots light logo, dark     *)
(* logo, favicon, whatever the earlier outcomes; a failed request is       *)
(* followed by one diagnostic line and leaves no sidecar and no manifest   *)
(* entry, and no file but the part of one that io.Copy wrote.              *)
(***************************************************************************)
\* what the paths of the files below a download root start with: nothing
\* for the working directory, the name of the directory and a separator for
\* the others
rootPrefix(root) ==
    CASE root = <<".">> -> <<>>
      [] root = AssetsDir -> <<"a", "s", "s", "e", "t", "s", "/">>
      [] root = AsideDir -> <<"b", "/">>
      [] OTHER -> root \o <<"/">>

\* the directories beside a download root that its path, as given, passes
\* through: a for a/../b, none for the others
passedThrough(root) == IF root = AsideDir THEN {<<"a">>} ELSE {}

\* the directory of a brand of the batch rs below the download root, with
\* its separator: none for a brand alone and for a brand whose sanitized
\* domain is empty
brandPrefix(rs, result) ==
    IF Len(rs) > 1 /\ sanitizeDirName(result.Domain) # <<>>
    THEN sanitizeDirName(result.Domain) \o <<"/">>
    ELSE <<>>

\* the slot of a download named name of a brand: the path below the root it
\* is recorded under, and the path it is saved at
slotOf(url, name, root, sub) ==
    [url |-> url, name |-> name, key |-> sub \o name, dest |-> rootPrefix(root) \o sub \o name]

\* the slots with a URL of the brands rs[i..]
RECURSIVE slotsFrom(_, _, _)
slotsOfBrand(root, result, sub) ==
    (IF result.LogoLight = <<>> THEN <<>>
     ELSE << slotOf(result.LogoLight, LogoLightSVG, root, sub) >>)
    \o (IF result.LogoDark = <<>> THEN <<>>
        ELSE << slotOf(result.LogoDark, LogoDarkSVG, root, sub) >>)
    \o (IF result.Favicon = <<>> THEN <<>>
        ELSE << slotOf(result.Favicon, FaviconName \o getExtensionFromURL(result.Favicon),
                       root, sub) >>)
slotsFrom(root, rs, i) ==
    IF i > Len(rs) THEN <<>>
    ELSE slotsOfBrand(root, rs[i], brandPrefix(rs, rs[i])) \o slotsFrom(root, rs, i + 1)

\* the requests made to the asset server so far
assetGets == SelectSeq(events, LAMBDA e : e.kind = "Get")

\* the run entered the download phase and left it
downloadsOver ==
    /\ pc.at \in {"write", "done"}
    /\ \E k \in DOMAIN events : events[k].kind = "MkdirAll"

mkdirFailed == \E k \in DOMAIN events : events[k].kind = "MkdirAll" /\ events[k].text # "ok"

\* the positions in events of the calls of downloadFile
getPositions == {k \in DOMAIN events : events[k].kind = "Get"}
\* the slot of the call at position k of events, slots being all slots
slotAt(slots, k) == slots[Cardinality({n \in getPositions : n <= k})]

\* the file could not be opened to compute its digest
Unreadable == "failed to open file for checksum"

\* the sidecar of the file saved by the call at position k could not be
\* written: the line that says so follows the line of the download
sidecarFailedAt(slots, k) ==
    /\ k + 2 <= Len(events)
    /\ \E why \in {"permission denied", Unreadable} :
          events[k + 2] = event("stderr", <<>>,
                                "Error: failed to write checksum for "
                                \o Text(slotAt(slots, k).name) \o ": " \o why \o "\n")
\* where the report of a failed verification of that file stands
reportAt(slots, k) == IF sidecarFailedAt(slots, k) THEN k + 3 ELSE k + 2
sidecarOf(path) == path \o <<".", "s", "h", "a", "2", "5", "6">>

verificationLine(slot, reason) ==
    "Error: checksum verification failed for " \o Text(slot.name) \o ": " \o reason \o "\n"

\* the lines that would report slot as failing verification
verificationLines(slot) ==
    {verificationLine(slot, "no manifest entry for " \o Text(slot.name))} \cup
    {verificationLine(slot, "expected " \o Text(manifest.map[key])) : key \in DOMAIN manifest.map}

\* the file saved by the call at position k could not be read when it was
\* to be verified: the line that says so stands where the report does
verifyUnreadableAt(slots, k) ==
    /\ reportAt(slots, k) <= Len(events)
    /\ events[reportAt(slots, k)] =
          event("stderr", <<>>, verificationLine(slotAt(slots, k), Unreadable))

\* the file saved by the call at position k could not be read when its
\* entry was to be built: the line that says so follows the lines of the
\* download, of the sidecar and of the verification
verifyReportedAt(slots, k) ==
    /\ reportAt(slots, k) <= Len(events)
    /\ events[reportAt(slots, k)].kind = "stderr"
    /\ events[reportAt(slots, k)].text
          \in verificationLines(slotAt(slots, k))
               \cup {verificationLine(slotAt(slots, k), Unreadable)}
buildAt(slots, k) == IF verifyReportedAt(slots, k) THEN reportAt(slots, k) + 1
                     ELSE reportAt(slots, k)
computeFailedAt(slots, k) ==
    /\ buildAt(slots, k) <= Len(events)
    /\ events[buildAt(slots, k)] =
          event("stderr", <<>>,
                "Error: failed to compute checksum for "
                \o Text(slotAt(slots, k).name) \o ": " \o Unreadable \o "\n")

\* the positions of the calls that saved a file, and of those among them
\* whose file could be read when its entry was to be built
savedAt == {k \in getPositions : events[k].text = "200"}
builtAt(slots) == {k \in savedAt : ~computeFailedAt(slots, k)}

\* the entries of the files at the positions ks, in the order of the calls
entriesOf(slots, ks) ==
    [n \in 1..Cardinality(ks) |->
        LET k == CHOOSE k \in ks : Cardinality({m \in ks : m <= k}) = n
        IN [Path |-> slotAt(slots, k).key, Sum |-> SHA256Hex(Served(slotAt(slots, k).url))]]

C12_FailedFetchNeverStopsBatch ==
    (~flags.quickSHA256ManifestVerify /\ ~mkdirFailed) =>
        LET slots == slotsFrom(flags.downloadDir, results, 1)
            saved == {k \in DOMAIN assetGets : assetGets[k].text = "200"}
        IN /\ Len(assetGets) <= Len(slots)
           /\ \A k \in DOMAIN assetGets : assetGets[k].target = slots[k].url
           /\ downloadsOver => Len(assetGets) = Len(slots)
           /\ \A k \in DOMAIN events :
                 (events[k].kind = "Get" /\ events[k].text # "200") =>
                    /\ k < Len(events)
                    /\ events[k + 1].kind = "stderr"
                    /\ \E n \in DOMAIN slots :
                          events[k + 1].text =
                             "Error: failed to download " \o Text(slots[n].name) \o ": "
                             \o (CASE events[k].text = "transport" -> "network error"
                                   [] events[k].text = "create" -> "permission denied"
                                   [] events[k].text = "copy" -> "unexpected EOF"
                                   [] OTHER -> "HTTP " \o events[k].text) \o "\n"
                    /\ k + 2 <= Len(events) => events[k + 2].kind # "stderr"
           \* the files on disk are the files saved and the files cut short,
           \* the sidecars those of the files saved, the entries one a file saved
           /\ DOMAIN disk.assets =
                 {slots[k].dest : k \in saved}
                   \cup {slots[k].dest : k \in {n \in DOMAIN assetGets : assetGets[n].text = "copy"}}
           /\ DOMAIN disk.sidecars =
                 {sidecarOf(slotAt(slots, k).dest) :
                    k \in {n \in getPositions :
                              /\ events[n].text = "200"
                              /\ flags.quickSHA256
                              /\ ~sidecarFailedAt(slots, n)}}
           \* the entries are those of the files saved that could be read
           /\ manifestEntries = entriesOf(slots, builtAt(slots))

\* a finished run on two brands whose first request failed with HTTP 404,
\* a later one with a transport error, and whose last one was saved
C12_Witness ==
    /\ pc.at = "done" /\ ret = "nil"
    /\ ~flags.quickSHA256ManifestVerify
    /\ Len(results) = 2
    /\ Len(assetGets) = 4
    /\ assetGets[1].text = "404"
    /\ assetGets[2].text = "transport"
    /\ assetGets[3].text = "404"
    /\ assetGets[4].text = "200"
    /\ Len(manifestEntries) = 1

(***************************************************************************)
(* C13: once a brand is fetched, failed asset fetches do not change what   *)
(* the command returns unless strict verification is requested: whatever   *)
(* the sidecar, verify-manifest, manifest-out and append flags and         *)
(* whichever requests fail, all of them included, the command returns nil. *)
(***************************************************************************)
\* a run that went through its download phase without strict verification
\* and without a directory error has returned
manifestWriteFailed ==
    \E k \in DOMAIN events : events[k].kind = "WriteFile" /\ events[k].text # "ok"

lenientRunOver ==
    /\ pc.at = "done"
    /\ \E k \in DOMAIN events : events[k].kind = "MkdirAll"
    /\ ~flags.quickSHA256ManifestVerify
    /\ ~mkdirFailed
    /\ ~manifestWriteFailed

C13_FailedFetchesNeverFail ==
    lenientRunOver => ret = "nil"

\* C13 as the code has it: such a run returns nil unless a manifest is to be
\* written and no entry was collected, no asset being saved or none of
\* those saved being readable when its entry was built, in which case it
\* returns the error of writeSHA256Manifest on an empty list
nothingRecorded ==
    \A k \in savedAt : computeFailedAt(slotsFrom(flags.downloadDir, results, 1), k)

C13_FailedFetchesFailOnlyEmptyManifest ==
    lenientRunOver =>
        ret = IF flags.quickSHA256ManifestOut # <<>> /\ nothingRecorded
              THEN "no downloaded files to write"
              ELSE "nil"

\* a run with every checksum flag but the strict one, in which requests
\* failed both ways and one asset was saved, has returned nil
C13_Witness ==
    /\ lenientRunOver
    /\ ret = "nil"
    /\ flags.quickSHA256 /\ flags.quickSHA256ManifestAppend
    /\ flags.quickSHA256Manifest # <<>> /\ flags.quickSHA256ManifestOut # <<>>
    /\ \E k \in DOMAIN assetGets : assetGets[k].text = "404"
    /\ \E k \in DOMAIN assetGets : assetGets[k].text = "transport"
    /\ Cardinality({k \in DOMAIN assetGets : assetGets[k].text = "200"}) = 1

(***************************************************************************)
(* C14: when a saved asset has no entry in the manifest or another digest  *)
(* than its entry, a "checksum verification failed" line is written on the *)
(* diagnostic stream; with strict verification the command returns that    *)
(* error at once, without it the run goes on with the next asset and       *)
(* returns what it would have returned.  No such line is written and no    *)
(* such error returned for an asset that agrees with the manifest.  A file *)
(* that has an entry and cannot be read is reported and fatal in the same  *)
(* way, with the error of computeSHA256.                                   *)
(***************************************************************************)
\* what is wrong with a saved slot according to the loaded manifest, "" when
\* nothing is: the manifest has neither the path of the slot below the
\* download root nor its name, or the digest it has is not that of the
\* content served
manifestHas(slot) ==
    ~manifest.nil /\ (slot.key \in DOMAIN manifest.map \/ slot.name \in DOMAIN manifest.map)
verifyFailure(slot) ==
    LET map == manifest.map
        expected == IF slot.key \in DOMAIN map THEN map[slot.key] ELSE map[slot.name]
        digest == SHA256Hex(Served(slot.url))
    IN IF manifest.nil THEN ""
       ELSE IF ~manifestHas(slot)
       THEN "no manifest entry for " \o Text(slot.name)
       ELSE IF [i \in DOMAIN expected |-> ToLower(expected[i])] # digest
       THEN "expected " \o Text(expected)
       ELSE ""

\* what the verification of the file saved by the call at position k ends
\* in: the file has an entry and could not be read, or it is verified
\* against the manifest
failureAt(slots, k) ==
    IF manifestHas(slotAt(slots, k)) /\ verifyUnreadableAt(slots, k) THEN Unreadable
    ELSE verifyFailure(slotAt(slots, k))

C14_VerificationFailureReported ==
    LET slots == slotsFrom(flags.downloadDir, results, 1)
        saved == savedAt
        failure == [k \in saved |-> failureAt(slots, k)]
    IN \* a file is opened for its verification only when it has an entry
       /\ \A k \in saved : verifyUnreadableAt(slots, k) => manifestHas(slotAt(slots, k))
       /\ \A k \in saved :
             failure[k] # "" =>
                \* reported, after the lines of the download and of its sidecar
                /\ reportAt(slots, k) <= Len(events)
                /\ events[reportAt(slots, k)] =
                      event("stderr", <<>>, verificationLine(slotAt(slots, k), failure[k]))
                /\ IF flags.quickSHA256ManifestVerify
                   THEN \* the command has failed with this error, nothing came after
                        /\ Len(events) = reportAt(slots, k)
                        /\ pc.at = "done"
                        /\ ret = failure[k]
                   ELSE \* the run went on
                        /\ ret \in {"running", "nil", "permission denied",
                                    "no downloaded files to write"}
                        /\ ret = "no downloaded files to write" =>
                              (flags.quickSHA256ManifestOut # <<>> /\ nothingRecorded)
                        /\ pc.at = "done" =>
                              (ret = "nil" <=>
                                  /\ ~mkdirFailed /\ ~manifestWriteFailed
                                  /\ ~(flags.quickSHA256ManifestOut # <<>> /\ nothingRecorded))
                        /\ (pc.at = "done" /\ ~mkdirFailed) =>
                              Cardinality(getPositions) = Len(slots)
       /\ \A k \in saved :
             failure[k] = "" =>
                ~(/\ reportAt(slots, k) <= Len(events)
                  /\ events[reportAt(slots, k)].kind = "stderr"
                  /\ events[reportAt(slots, k)].text \in verificationLines(slotAt(slots, k)))
       /\ (\A k \in saved : failure[k] = "") =>
             ret \in {"running", "nil", "permission denied", "failed to read manifest",
                      "no downloaded files to write"}
                  \cup {"failed to fetch all domains: " \o joinText(fetchErrors, "; ")}
                  \cup {"--sha256-manifest requires --download",
                        "--sha256-manifest-out requires --download",
                        "--sha256-manifest-append requires --sha256-manifest-out"}

\* a finished run without strict verification that reported an asset with
\* another digest than its entry, then saved an asset that agrees with the
\* manifest, reported an asset missing from the manifest and returned nil
C14_Witness ==
    /\ pc.at = "done" /\ ret = "nil"
    /\ ~flags.quickSHA256ManifestVerify
    /\ ~manifest.nil
    /\ \E k1, k2, k3 \in getPositions :
          /\ k2 < k3
          /\ events[k1].text = "200" /\ events[k2].text = "200" /\ events[k3].text = "200"
          /\ verifyFailure(slotAt(slotsFrom(flags.downloadDir, results, 1), k1)) = "no manifest entry for " \o Text(slotAt(slotsFrom(flags.downloadDir, results, 1), k1).name)
          /\ verifyFailure(slotAt(slotsFrom(flags.downloadDir, results, 1), k2)) = "expected AB"
          /\ verifyFailure(slotAt(slotsFrom(flags.downloadDir, results, 1), k3)) = ""

(***************************************************************************)
(* C15: every identifier is fetched once, in argument order, whatever the  *)
(* earlier fetches returned.  When none succeeds the command fails and has *)
(* printed no export and requested no asset; when one succeeds the export  *)
(* and the downloads are those of the brands that were fetched, in         *)
(* argument order, and the failed fetches do not make the command fail.    *)
(***************************************************************************)
brandCalls == SelectSeq(events, LAMBDA e : e.kind = "GetBrand")
\* the brands of the calls that succeeded, in the order of the calls
fetched ==
    LET good == SelectSeq(brandCalls, LAMBDA e : e.text = "ok")
    IN [k \in DOMAIN good |-> BrandAPI[good[k].target]]
exports == SelectSeq(events, LAMBDA e : e.kind = "stdout")
fetchingOver == pc.at \notin {"validate", "fetch"}
\* no download directory and no checksum flag
plainExport ==
    /\ flags.downloadDir = <<>>
    /\ flags.quickSHA256Manifest = <<>> /\ flags.quickSHA256ManifestOut = <<>>
    /\ ~flags.quickSHA256ManifestAppend

C15_PartialFetchFailure ==
    /\ Len(brandCalls) <= Len(args)
    /\ \A k \in DOMAIN brandCalls : brandCalls[k].target = args[k]
    /\ fetchingOver => Len(brandCalls) = Len(args)
    /\ results = fetched
    /\ (fetchingOver /\ fetched = <<>>) =>
          /\ pc.at = "done" => ret = "failed to fetch all domains: " \o joinText(fetchErrors, "; ")
          /\ pc.at \in {"export", "done"}
          /\ exports = <<>> /\ assetGets = <<>>
          /\ disk.dirs = {} /\ DOMAIN disk.assets = {} /\ DOMAIN disk.sidecars = {}
    /\ (fetchingOver /\ fetched # <<>>) =>
          /\ pc.at # "export" => exports = << event("stdout", <<>>, exportText(flags, fetched)) >>
          /\ LET slots == slotsFrom(flags.downloadDir, fetched, 1)
             IN /\ Len(assetGets) <= Len(slots)
                /\ \A k \in DOMAIN assetGets : assetGets[k].target = slots[k].url
                /\ DOMAIN disk.assets \subseteq {slots[k].dest : k \in DOMAIN slots}
          /\ pc.at = "done" =>
                /\ ret # "failed to fetch all domains: " \o joinText(fetchErrors, "; ")
                /\ plainExport => ret = "nil"
                /\ (lenientRunOver /\ flags.quickSHA256ManifestOut = <<>>) => ret = "nil"
                /\ (lenientRunOver /\ manifestEntries # <<>>) => ret = "nil"

\* the first of two identifiers failed, the second was fetched: its export
\* was printed, its asset saved below the download root, and the command
\* returned nil
C15_Witness ==
    /\ pc.at = "done" /\ ret = "nil"
    /\ Len(args) = 2
    /\ Len(brandCalls) = 2
    /\ brandCalls[1].text # "ok" /\ brandCalls[2].text = "ok"
    /\ results = << BrandAPI[args[2]] >>
    /\ Len(exports) = 1
    /\ \E k \in DOMAIN assetGets : assetGets[k].text = "200"

(***************************************************************************)
(* C16: when the target directory of a brand cannot be created the command *)
(* returns that error: nothing of this brand and of the brands after it is *)
(* requested from the asset server, and no manifest is written.            *)
(***************************************************************************)
mkdirPositions == {k \in DOMAIN events : events[k].kind = "MkdirAll"}

\* number of slots with a URL of the first n brands of results
RECURSIVE slotCount(_)
slotCount(n) == IF n = 0 THEN 0 ELSE slotCount(n - 1) + Len(downloads(results[n]))

C16_MkdirFailureFatal ==
    \A k \in mkdirPositions :
        events[k].text # "ok" =>
            LET brand == Cardinality({n \in mkdirPositions : n <= k})
            IN /\ pc.at = "done"
               /\ ret = events[k].text
               /\ Len(events) = k + 1
               /\ events[k + 1] = event("stderr", <<>>,
                                        "Error: failed to create directory "
                                        \o Text(events[k].target) \o ": " \o events[k].text \o "\n")
               /\ \A n \in getPositions : n < k
               /\ Len(assetGets) <= slotCount(brand - 1)
               /\ ~flags.quickSHA256ManifestVerify => Len(assetGets) = slotCount(brand - 1)
               /\ \A n \in DOMAIN events : events[n].kind # "WriteFile"
               /\ disk.manifestOut \in ManifestOutFiles

\* the assets of the first brand were saved and were to be written to a
\* manifest when the directory of the second brand could not be created
C16_Witness ==
    /\ pc.at = "done" /\ ret = "permission denied"
    /\ Len(results) = 2
    /\ flags.quickSHA256ManifestOut # <<>>
    /\ Len(manifestEntries) = Len(downloads(results[1]))
    /\ Len(manifestEntries) > 0
    /\ Cardinality(mkdirPositions) = 2
    /\ Len(assetGets) < Len(slotsFrom(flags.downloadDir, results, 1))

(***************************************************************************)
(* C17: the assets of a brand go to the download root when one brand was   *)
(* fetched and to <root>/<sanitized domain> when several were: a run on    *)
(* one brand creates no directory below the root (none but the root and    *)
(* those its path as given passes through), and a run on several brands    *)
(* saves no asset directly in the root.                                    *)
(***************************************************************************)
\* the directory of the path of a saved file, with its separator
dirOf(path) == SubSeq(path, 1, Len(path) - Len(Base(path)))

C17_TargetDirectory ==
    /\ \A k \in mkdirPositions :
          LET brand == results[Cardinality({n \in mkdirPositions : n <= k})]
          IN events[k].target =
                IF Len(results) = 1 THEN flags.downloadDir
                ELSE Join(flags.downloadDir, sanitizeDirName(brand.Domain))
    /\ Len(results) = 1 =>
          /\ \A d \in disk.dirs : \/ d \o <<"/">> = rootPrefix(flags.downloadDir)
                                   \/ d \in passedThrough(flags.downloadDir)
          /\ \A p \in DOMAIN disk.assets : dirOf(p) = rootPrefix(flags.downloadDir)
    /\ Len(results) > 1 =>
          /\ \A p \in DOMAIN disk.assets : dirOf(p) # rootPrefix(flags.downloadDir)

(***************************************************************************)
(* C18: a run of the quick command that returns a validation error (two    *)
(* output selections together, a verify manifest or a manifest to write    *)
(* without a download directory, append without a manifest to write) has   *)
(* called neither the Brand API nor the asset server, has printed nothing  *)
(* and has created no directory and no file.                               *)
(***************************************************************************)
exclusiveErrors ==
    { "--css and --output json are mutually exclusive",
      "--tailwind and --output json are mutually exclusive",
      "--tailwind and --css are mutually exclusive" }

validationErrors ==
    exclusiveErrors \cup
    { "--sha256-manifest requires --download",
      "--sha256-manifest-out requires --download",
      "--sha256-manifest-append requires --sha256-manifest-out" }

C18_ValidationBeforeAnyEffect ==
    ret \in validationErrors =>
        /\ events = <<>>
        /\ disk.dirs = {} /\ DOMAIN disk.assets = {} /\ DOMAIN disk.sidecars = {}

(***************************************************************************)
(* C19: with append set and no manifest to write, the quick command        *)
(* returns a validation error, whatever the other flags, with and without  *)
(* a download directory and a verify manifest.                             *)
(***************************************************************************)
C19_AppendNeedsManifestOut ==
    (/\ pc.at = "done"
     /\ flags.quickSHA256ManifestAppend
     /\ flags.quickSHA256ManifestOut = <<>>) => ret \in validationErrors

(***************************************************************************)
(* C20: with two of the selections --css, --tailwind and --output json the *)
(* quick command returns a "mutually exclusive" error, calls the Brand API *)
(* for no identifier and prints nothing on the primary stream.             *)
(***************************************************************************)
\* --output asks for JSON: the value names the JSON format
jsonRequested == ParseFormat(flags.outputFormat) = [format |-> "json", err |-> ""]

twoSelections ==
    \/ flags.cssOutput /\ jsonRequested
    \/ flags.tailwindOutput /\ jsonRequested
    \/ flags.tailwindOutput /\ flags.cssOutput

C20_OutputSelectionsExclusive ==
    /\ (twoSelections /\ pc.at # "validate") =>
          /\ pc.at = "done"
          /\ ret \in exclusiveErrors
          /\ brandCalls = <<>> /\ results = <<>>
          /\ exports = <<>>
          /\ events = <<>>
    /\ (~twoSelections /\ pc.at # "idle") => ret \notin exclusiveErrors

(***************************************************************************)
(* C21: once a brand has been fetched and the run is past the export, the  *)
(* export of the fetched brands is on the primary stream, before the first *)
(* directory is created and the first asset is requested, and it is the    *)
(* only text there: progress and failures go to the diagnostic stream.  So *)
(* the export is there however the download, checksum and manifest steps   *)
(* end.                                                                    *)
(***************************************************************************)
stdoutPositions == {k \in DOMAIN events : events[k].kind = "stdout"}

C21_ExportBeforeFirstAssetFetch ==
    /\ (results # <<>> /\ pc.at \notin {"validate", "fetch", "export"}) =>
          /\ exports = << event("stdout", <<>>, exportText(flags, results)) >>
          /\ \A k \in DOMAIN events :
                events[k].kind \in {"Get", "MkdirAll", "WriteFile"} =>
                    \E n \in stdoutPositions : n < k
    /\ Len(exports) <= 1
    /\ \A k \in DOMAIN events :
          events[k].kind \in {"Get", "MkdirAll", "WriteFile"} => stdoutPositions # {}

(***************************************************************************)
(* C22: a read of the verify manifest that fails, a read of the manifest   *)
(* to append to that fails for another reason than the file not being      *)
(* there, and a write of the manifest that fails each end the command with *)
(* an error: nothing is done after the failed operation.                   *)
(***************************************************************************)
\* the manifest reads and writes that have to end the run when they fail
fatalManifestIO(e) ==
    \/ e.kind = "ReadFile" /\ e.target = flags.quickSHA256Manifest /\ e.text # "ok"
    \/ e.kind = "ReadFile" /\ e.target = flags.quickSHA256ManifestOut
          /\ e.text \notin {"ok", "no such file or directory"}
    \/ e.kind = "WriteFile" /\ e.text # "ok"

C22_ManifestIOErrorsFatal ==
    \A k \in DOMAIN events :
        fatalManifestIO(events[k]) =>
            /\ k = Len(events)
            /\ pc.at = "done"
            /\ ret \notin {"running", "nil"}

(***************************************************************************)
(* C23: parseSHA256Manifest returns, without error, the map that has one   *)
(* key per line that is not skipped, the path token of the line without    *)
(* one leading * and then one leading ./, with the first token of the last *)
(* such line as its value.  Skipped are blank lines, lines whose first     *)
(* non-space character is #, lines with fewer than two tokens and lines    *)
(* whose path token is empty after stripping.                              *)
(***************************************************************************)
\* the tokens of a line: its maximal runs of non-space characters
tokenStarts(l) == {i \in DOMAIN l : ~IsSpace(l[i]) /\ (i = 1 \/ IsSpace(l[i - 1]))}
tokenEnd(l, i) ==
    CHOOSE j \in i..Len(l) :
        /\ \A n \in i..j : ~IsSpace(l[n])
        /\ (j = Len(l) \/ IsSpace(l[j + 1]))
nthStart(l, n) ==
    CHOOSE i \in tokenStarts(l) : Cardinality({j \in tokenStarts(l) : j <= i}) = n
token(l, n) == SubSeq(l, nthStart(l, n), tokenEnd(l, nthStart(l, n)))

stripOne(s, prefix) ==
    IF Len(s) >= Len(prefix) /\ SubSeq(s, 1, Len(prefix)) = prefix
    THEN SubSeq(s, Len(prefix) + 1, Len(s)) ELSE s
lineKey(l) == stripOne(stripOne(token(l, 2), <<"*">>), <<".", "/">>)

skippedLine(l) ==
    \/ tokenStarts(l) = {}
    \/ token(l, 1)[1] = "#"
    \/ Cardinality(tokenStarts(l)) < 2
    \/ lineKey(l) = <<>>

\* the lines of a file: the text between its line feeds
lineBreaks(data) == {i \in DOMAIN data : data[i] = "\n"}
fileLine(data, n) ==
    LET breaks == {0} \cup lineBreaks(data) \cup {Len(data) + 1}
        from == CHOOSE i \in breaks : Cardinality({j \in breaks : j < i}) = n - 1
        to == CHOOSE i \in breaks : Cardinality({j \in breaks : j < i}) = n
    IN SubSeq(data, from + 1, to - 1)

C23_ParseManifest ==
    (lastWrite.kind = "parse" /\ manifestFile.exists) =>
        LET data == manifestFile.data
            n == Cardinality(lineBreaks(data)) + 1
            kept == {i \in 1..n : ~skippedLine(fileLine(data, i))}
            lastOf(key) == CHOOSE i \in kept :
                              /\ lineKey(fileLine(data, i)) = key
                              /\ \A j \in kept : lineKey(fileLine(data, j)) = key => j <= i
        IN /\ ~lastWrite.err
           /\ merged.tracked
           /\ DOMAIN merged.map = {lineKey(fileLine(data, i)) : i \in kept}
           /\ \A key \in DOMAIN merged.map :
                 merged.map[key] = token(fileLine(data, lastOf(key)), 1)

\* a file of two lines for one path was parsed, the second with the binary
\* marker: the map has the digest of the second line under the bare path
C23_Witness ==
    /\ lastWrite.kind = "parse"
    /\ manifestFile.exists
    /\ manifestFile.data = <<"c", "d", " ", " ", "a", "\n", "A", "B", " ", "*", "a">>
    /\ merged.map = [k \in {<<"a">>} |-> <<"A", "B">>]

(***************************************************************************)
(* C24: the path buildChecksumEntry records for a file is the path         *)
(* relative to the root when there is a root and that path is neither      *)
(* empty nor ".", and the base name otherwise; it is the first key         *)
(* verifySHA256ManifestEntry looks the file up under, the base name being  *)
(* used only when the manifest has no such key.  So the manifest one run   *)
(* writes verifies the unchanged file in a later run with the same root.   *)
(***************************************************************************)
\* the content of the file when it was recorded, read off its digest
recordedUnchanged == SHA256Hex(verifyCall.file.data) = lastWrite.entries[1].Sum

C24_RecordedKeyVerifies ==
    lastWrite.kind = "write" =>
        LET path == verifyCall.path
            root == verifyCall.root
            rel == relativeTo(root, path) \ {<<".">>}
            recorded == lastWrite.entries[1].Path
            keys == manifestKeys(path, root)
        IN /\ recorded \in (IF root # <<>> /\ rel # {} THEN rel ELSE {Base(path)})
           /\ recorded = keys[1]
           /\ \A i \in DOMAIN keys : i > 1 => keys[i] = Base(path)
           /\ verifyCall.called =>
                 /\ keys[1] \in DOMAIN verifyCall.manifest.map =>
                       verifyErr \in {"", "expected " \o Text(verifyCall.manifest.map[keys[1]])}
                 /\ recordedUnchanged => verifyErr = ""

(***************************************************************************)
(* C25: the nested color emitter has one entry per type, in the order in   *)
(* which the types first occur.  The entry of a type with one color is     *)
(* "type: 'hex'," with the value of the flat variable --color-type; the    *)
(* entry of a type with k > 1 colors is a sub-object with the keys 1..k,   *)
(* key N holding the value of the flat variable --color-type-N of that     *)
(* color.                                                                  *)
(***************************************************************************)
colorTypesOf(cs) == {cs[i].Type : i \in DOMAIN cs}
firstOccurrence(cs, t) == CHOOSE i \in occurrences(cs, t) : \A j \in occurrences(cs, t) : i <= j
\* the position among the entries of the entry of type t
entryIndex(cs, t) ==
    Cardinality({u \in colorTypesOf(cs) : firstOccurrence(cs, u) <= firstOccurrence(cs, t)})
\* the position in cs of the N-th color of type t
nthOfType(cs, t, N) == CHOOSE i \in occurrences(cs, t) : arrivalRank(cs, i) = N

\* the lines N..k of the sub-object of type t, from the flat variables
RECURSIVE mirroredLines(_, _, _)
mirroredLines(t, N, k) ==
    IF N > k THEN ""
    ELSE "      " \o ToString(N) \o ": '" \o colorVars[nthOfType(colors, t, N)].value \o "',\n"
         \o mirroredLines(t, N + 1, k)

C25_NestedMirrorsFlat ==
    /\ Len(colorEntries) = Cardinality(colorTypesOf(colors))
    /\ \A t \in colorTypesOf(colors) :
          LET k == Cardinality(occurrences(colors, t))
              entry == colorEntries[entryIndex(colors, t)]
          IN IF k = 1
             THEN /\ colorVars[nthOfType(colors, t, 1)].name = "--color-" \o t
                  /\ entry = "    " \o t \o ": '"
                             \o colorVars[nthOfType(colors, t, 1)].value \o "',\n"
             ELSE /\ \A N \in 1..k :
                        colorVars[nthOfType(colors, t, N)].name =
                            "--color-" \o t \o "-" \o ToString(N)
                  /\ entry = "    " \o t \o ": {\n" \o mirroredLines(t, 1, k) \o "    },\n"

\* accent, light, accent: the sub-object of accent comes first, then the
\* single entry of light
C25_Witness ==
    /\ Len(colors) = 3
    /\ colors[1].Type = "accent" /\ colors[2].Type = "light" /\ colors[3].Type = "accent"
    /\ colors[1].Hex = "#FF0000" /\ colors[3].Hex = "#00FF00"
    /\ colorEntries = << "    accent: {\n      1: '#FF0000',\n      2: '#00FF00',\n    },\n",
                         "    light: '" \o colors[2].Hex \o "',\n" >>

(***************************************************************************)
(* C26: a run writes the manifest at most once, with a manifest path set,  *)
(* after every asset of every fetched brand has been requested, as its     *)
(* last step.  Written without append, the manifest has one key per asset  *)
(* that was saved in this run and could be read when its digest was        *)
(* computed, its path relative to the download root, with the digest of    *)
(* the last such asset saved at that path, and no other key: none for an   *)
(* asset whose fetch failed, and none for a saved asset the run reported   *)
(* with "failed to compute checksum".                                      *)
(***************************************************************************)
writePositions == {k \in DOMAIN events : events[k].kind = "WriteFile"}

\* C26 as claimed: the keys are the paths of all the assets saved
C26_KeysOfAllSaved ==
    \A k \in writePositions :
        (events[k].text = "ok" /\ ~flags.quickSHA256ManifestAppend) =>
            DOMAIN parseSHA256Manifest(disk.manifestOut).entries =
                {slotAt(slotsFrom(flags.downloadDir, results, 1), n).key : n \in savedAt}

C26_ManifestWrittenOnceAtEnd ==
    LET slots == slotsFrom(flags.downloadDir, results, 1)
        saved == builtAt(slots)
    IN /\ Cardinality(writePositions) <= 1
       /\ writePositions = {} => disk.manifestOut \in ManifestOutFiles
       /\ \A k \in writePositions :
             /\ flags.quickSHA256ManifestOut # <<>>
             /\ events[k].target = flags.quickSHA256ManifestOut
             /\ k = Len(events)
             /\ pc.at = "done"
             /\ Cardinality(getPositions) = Len(slots)
             /\ (events[k].text = "ok" /\ ~flags.quickSHA256ManifestAppend) =>
                   LET written == parseSHA256Manifest(disk.manifestOut).entries
                   IN /\ disk.manifestOut.exists
                      /\ DOMAIN written = {slotAt(slots, n).key : n \in saved}
                      /\ \A n \in saved :
                            (\A m \in saved : slotAt(slots, m).dest = slotAt(slots, n).dest
                                                  => m <= n) =>
                            written[slotAt(slots, n).key]
                                = SHA256Hex(Served(slotAt(slots, n).url))

\* two brands below ./assets/, a request that failed and three assets saved,
\* one of which could not be read: the manifest was written without append
\* and has the keys of the two others
C26_Witness ==
    /\ pc.at = "done" /\ ret = "nil"
    /\ Len(results) = 2
    /\ flags.downloadDir = AssetsDir
    /\ ~flags.quickSHA256ManifestAppend
    /\ \E k \in writePositions : events[k].text = "ok"
    /\ \E n \in getPositions : events[n].text # "200"
    /\ Cardinality(savedAt) = 3
    /\ \E n \in savedAt : computeFailedAt(slotsFrom(flags.downloadDir, results, 1), n)
    /\ Cardinality(DOMAIN parseSHA256Manifest(disk.manifestOut).entries) = 2
    /\ disk.manifestOut \notin ManifestOutFiles

(***************************************************************************)
(* C27: appending to the manifest is a read and a later write with no      *)
(* lock.  When two invocations append to one path and the one that writes  *)
(* last has read the file before the other wrote it, the manifest after    *)
(* both writes is the old manifest with the entries of the last writer     *)
(* only: the update of the other is lost.  When it has read the file after *)
(* the other wrote it, the manifest has the entries of both.               *)
(***************************************************************************)
bothDone == \A p \in Writers : writers[p].at = "done"
lastWriter == CHOOSE p \in Writers : writers[p].wroteAs = 2
firstWriter == CHOOSE p \in Writers : writers[p].wroteAs = 1

C27_AppendLosesUpdate ==
    bothDone =>
        LET final == parseSHA256Manifest(manifestFile).entries
            old == merged.map
            mine == entriesAsMap(writers[lastWriter].entries)
            theirs == entriesAsMap(writers[firstWriter].entries)
        IN /\ manifestFile.exists
           /\ ~writers[firstWriter].readAfter
           /\ final = IF writers[lastWriter].readAfter
                      THEN mapOverride(mapOverride(old, theirs), mine)
                      ELSE mapOverride(old, mine)

\* both invocations read the old manifest, then both wrote: the entry for b
\* the first one wrote is not in the manifest
C27_Witness ==
    /\ bothDone
    /\ ~writers[lastWriter].readAfter
    /\ writers[firstWriter].entries[1].Path = <<"b">>
    /\ writers[lastWriter].entries[1].Path = <<"a">>
    /\ DOMAIN parseSHA256Manifest(manifestFile).entries = {<<"a">>, <<"o", "l", "d", ".", "s", "v", "g">>}

(***************************************************************************)
(* C28: when two or more brands were fetched and their domains differ      *)
(* pairwise, their target directories differ pairwise, and so do the paths *)
(* and manifest keys of their assets: no file saved for one brand is       *)
(* written again for another, and the run collects no two entries with one *)
(* key.                                                                    *)
(***************************************************************************)
distinctDomains ==
    \A i, j \in DOMAIN results : i # j => results[i].Domain # results[j].Domain

C28_DistinctDirectories ==
    (fetchingOver /\ Len(results) >= 2 /\ distinctDomains) =>
        LET slots == slotsFrom(flags.downloadDir, results, 1)
            saved == {k \in getPositions : events[k].text = "200"}
        IN /\ \A i, j \in DOMAIN results :
                 i # j => targetDir(flags.downloadDir, results, results[i])
                            # targetDir(flags.downloadDir, results, results[j])
           /\ \A k, n \in saved : k # n => slotAt(slots, k).dest # slotAt(slots, n).dest
           /\ \A k, n \in DOMAIN manifestEntries :
                 k # n => manifestEntries[k].Path # manifestEntries[n].Path

(***************************************************************************)
(* C29: with --sha256-manifest-verify, the first asset that fails the      *)
(* verification against the manifest, or cannot be read for it, ends the   *)
(* run: its report is the last thing the run does, no further asset is     *)
(* requested, the asset is not among the collected entries, the manifest   *)
(* to write is as it was before the run, and every file saved so far, the  *)
(* failing one included, is on disk.                                       *)
(***************************************************************************)
C29_StrictFailureStopsAtOnce ==
    LET slots == slotsFrom(flags.downloadDir, results, 1)
        saved == savedAt
    IN \A k \in saved :
          (flags.quickSHA256ManifestVerify /\ failureAt(slots, k) # "") =>
              /\ Len(events) = reportAt(slots, k)
              /\ \A n \in getPositions : n <= k
              /\ pc.at = "done"
              /\ ret = failureAt(slots, k)
              \* the entries are those of the files saved before it that could
              \* be read
              /\ manifestEntries = entriesOf(slots, {m \in builtAt(slots) : m < k})
              /\ writePositions = {}
              /\ disk.manifestOut \in ManifestOutFiles
              /\ \A n \in saved : slotAt(slots, n).dest \in DOMAIN disk.assets
              /\ disk.assets[slotAt(slots, k).dest] = Served(slotAt(slots, k).url)

\* stripe.com alone, strict, with a manifest to write: the light logo agreed
\* with the manifest, the dark logo has no entry; the icon was not requested,
\* one entry was collected, both files are on disk, the manifest to write
\* was not touched
C29_Witness ==
    /\ pc.at = "done"
    /\ flags.quickSHA256ManifestVerify
    /\ flags.quickSHA256ManifestOut # <<>>
    /\ args = <<StripeCom>>
    /\ Len(assetGets) = 2
    /\ assetGets[1].text = "200" /\ assetGets[2].text = "200"
    /\ ret = "no manifest entry for logo-dark.svg"
    /\ Len(manifestEntries) = 1
    /\ Cardinality(DOMAIN disk.assets) = 2
    /\ disk.manifestOut.exists

(***************************************************************************)
(* C30: the number of brands fetched, not the number of identifiers given, *)
(* selects the batch forms.  When several identifiers are given and one    *)
(* brand is fetched, the export is the single-brand form of that brand,    *)
(* no directory is created but the download root and those its path as    *)
(* given passes through, every file saved is the root joined with its     *)
(* file name, and every manifest entry collected has the bare file name   *)
(* as its path.                                                            *)
(***************************************************************************)
oneOfSeveralFetched == Len(args) > 1 /\ fetchingOver /\ Len(results) = 1

\* the export of one brand alone under flags f
singleForm(f, result) ==
    IF f.cssOutput THEN FormatQuickCSS(result)
    ELSE IF f.tailwindOutput THEN FormatQuickTailwind(result)
    ELSE FormatQuick(result, ParseFormat(f.outputFormat).format, FALSE)

C30_BatchSizeIsNumberFetched ==
    oneOfSeveralFetched =>
        LET list == downloads(results[1])
            names == {list[n].filename : n \in DOMAIN list}
        IN /\ \A k \in DOMAIN exports :
                 exports[k].text = singleForm(flags, results[1]) \o "\n"
           /\ \A k \in DOMAIN events :
                 events[k].kind = "MkdirAll" => events[k].target = flags.downloadDir
           /\ DOMAIN disk.assets \subseteq {rootPrefix(flags.downloadDir) \o name : name \in names}
           /\ disk.dirs \subseteq {SubSeq(rootPrefix(flags.downloadDir), 1,
                                          Len(rootPrefix(flags.downloadDir)) - 1)}
                                  \cup passedThrough(flags.downloadDir)
           /\ \A n \in DOMAIN manifestEntries : manifestEntries[n].Path \in names
           /\ pc.at = "done" /\ writePositions # {} /\ ret = "nil"
                 /\ ~flags.quickSHA256ManifestAppend =>
                 DOMAIN parseSHA256Manifest(disk.manifestOut).entries \subseteq names

\* id_acme and stripe.io were given and the call for id_acme failed: the
\* CSS export is that of stripe.io alone, without the brand prefix; with
\* --download ./assets/ its logo is at assets/logo-light.svg and the
\* manifest written has the key logo-light.svg
C30_Witness ==
    /\ pc.at = "done" /\ ret = "nil"
    /\ args = <<AcmeID, StripeIO>>
    /\ Len(results) = 1 /\ results[1].Domain = StripeIO
    /\ flags.cssOutput
    /\ Len(exports) = 1
    /\ exports[1].text = FormatQuickCSS(BrandAPI[StripeIO]) \o "\n"
    /\ exports[1].text # FormatQuickCSSBatchNoSingleCase(results) \o "\n"
    /\ flags.downloadDir = AssetsDir
    /\ DOMAIN disk.assets = {<<"a", "s", "s", "e", "t", "s", "/">> \o LogoLightSVG}
    /\ ~flags.quickSHA256ManifestAppend
    /\ \E k \in writePositions : events[k].text = "ok"
    /\ DOMAIN parseSHA256Manifest(disk.manifestOut).entries = {LogoLightSVG}

====
